---- MODULE Spec2Model ----
(***************************************************************************)
(* A model of tshttpurl: the IPv6 address class (src/src/IPv6.ts) and the  *)
(* HttpURL / QueryParam classes (src/src/HttpURL.ts).                      *)
(*                                                                         *)
(* A JavaScript string is a sequence of one-character strings.  A 128-bit  *)
(* bigint is the sequence of its eight 16-bit groups, most significant     *)
(* first.  A JavaScript number is an integer; parseInt on long digit       *)
(* strings saturates at a cap above every limit the code compares with.    *)
(***************************************************************************)
EXTENDS Integers, Sequences, FiniteSets, TLC

VARIABLES
    addr,      \* the IPv6 instance under use (value and memo cells), or NoAddr
    aret,      \* what the last IPv6 operation returned or threw
    origin,    \* the value whose rendering was handed to `new IPv6(string)`
    args,      \* the arguments of the last call of the constructor, of compare or of equals
    flagsUsed, \* the flags of the toIPv6String calls made on the instance so far
    input,     \* the argument of the last HttpURL constructor call, by component
    normUrl,   \* the constructor's local `url` after percent normalization
    url,       \* the HttpURL instance, or NoURL
    uret       \* what the last HttpURL operation returned or threw

vars == <<addr, aret, origin, args, flagsUsed, input, normUrl, url, uret>>
addrVars == <<addr, aret, origin, args, flagsUsed>>
urlVars == <<input, normUrl, url, uret>>

(***************************************************************************)
(* Characters and strings                                                  *)
(***************************************************************************)

\* the printable ASCII characters, in code order from 0x20 (the grave accent, 0x60,
\* cannot be written in a string of this language and is spelled GRAVE)
ASCII ==
    << " ", "!", "\"", "#", "$", "%", "&", "'", "(", ")", "*", "+", ",", "-", ".", "/",
       "0", "1", "2", "3", "4", "5", "6", "7", "8", "9", ":", ";", "<", "=", ">", "?",
       "@", "A", "B", "C", "D", "E", "F", "G", "H", "I", "J", "K", "L", "M", "N", "O",
       "P", "Q", "R", "S", "T", "U", "V", "W", "X", "Y", "Z", "[", "\\", "]", "^", "_",
       "GRAVE", "a", "b", "c", "d", "e", "f", "g", "h", "i", "j", "k", "l", "m", "n", "o",
       "p", "q", "r", "s", "t", "u", "v", "w", "x", "y", "z", "{", "|", "}", "~" >>

Chars == {ASCII[i] : i \in 1..Len(ASCII)} \cup {"\t"}

\* the UTF-16 code unit of a character
CodeOf == [c \in Chars |-> IF c = "\t" THEN 9 ELSE 31 + (CHOOSE i \in 1..Len(ASCII) : ASCII[i] = c)]

Code(c) == CodeOf[c]

\* the character of a printable code
Chr(n) == ASCII[n - 31]

IsDigit(c) == Code(c) >= 48 /\ Code(c) <= 57

IsUpper(c) == Code(c) >= 65 /\ Code(c) <= 90

IsLower(c) == Code(c) >= 97 /\ Code(c) <= 122

\* [0-9a-f] under the i flag
IsHexDigit(c) ==
    \/ IsDigit(c)
    \/ (Code(c) >= 65 /\ Code(c) <= 70)
    \/ (Code(c) >= 97 /\ Code(c) <= 102)

\* \w
IsWord(c) == IsDigit(c) \/ IsUpper(c) \/ IsLower(c) \/ c = "_"

\* \s
IsSpace(c) == c \in {" ", "\t"}

UpperChar(c) == IF IsLower(c) THEN Chr(Code(c) - 32) ELSE c

toLowerCase(s) == [i \in 1..Len(s) |-> IF IsUpper(s[i]) THEN Chr(Code(s[i]) + 32) ELSE s[i]]

toUpperCase(s) == [i \in 1..Len(s) |-> UpperChar(s[i])]

\* the value of a digit in radix 10 or 16
DigitVal(c) ==
    IF IsDigit(c) THEN Code(c) - 48
    ELSE IF IsUpper(c) THEN Code(c) - 55
    ELSE Code(c) - 87

HexDigits == <<"0", "1", "2", "3", "4", "5", "6", "7", "8", "9", "a", "b", "c", "d", "e", "f">>

Drop(s, n) == SubSeq(s, n + 1, Len(s))

Take(s, n) == SubSeq(s, 1, n)

StartsWith(s, p) == Len(s) >= Len(p) /\ Take(s, Len(p)) = p

\* String.prototype.indexOf for a one-character needle: 0-based, -1 when absent
indexOf(s, c) ==
    IF \E i \in 1..Len(s) : s[i] = c
    THEN (CHOOSE i \in 1..Len(s) : s[i] = c /\ \A j \in 1..(i - 1) : s[j] # c) - 1
    ELSE -1

lastIndexOf(s, c) ==
    IF \E i \in 1..Len(s) : s[i] = c
    THEN (CHOOSE i \in 1..Len(s) : s[i] = c /\ \A j \in (i + 1)..Len(s) : s[j] # c) - 1
    ELSE -1

RECURSIVE split(_, _)
\* String.prototype.split on a one-character separator: empty parts are kept
split(s, c) ==
    LET i == indexOf(s, c)
    IN  IF i < 0 THEN <<s>> ELSE <<Take(s, i)>> \o split(Drop(s, i + 1), c)

RECURSIVE join(_, _)
\* Array.prototype.join
join(parts, sep) ==
    IF parts = <<>> THEN <<>>
    ELSE IF Len(parts) = 1 THEN parts[1]
    ELSE parts[1] \o sep \o join(Tail(parts), sep)

RECURSIVE padStart(_, _, _)
padStart(s, n, c) == IF Len(s) >= n THEN s ELSE padStart(<<c>> \o s, n, c)

RECURSIVE NumToString(_, _)
\* Number.prototype.toString(radix) of a non-negative integer
NumToString(n, radix) ==
    IF n < radix THEN <<HexDigits[n + 1]>>
    ELSE NumToString(n \div radix, radix) \o <<HexDigits[(n % radix) + 1]>>

\* parseInt saturates here: the cap is above every limit a parsed number is compared with
ParseCap == 1000000

RECURSIVE ParseDigits(_, _, _)
\* parseInt(s, radix) of a string of digits of that radix, accumulated left to right
ParseDigits(s, radix, acc) ==
    IF s = <<>> THEN acc
    ELSE LET n == acc * radix + DigitVal(s[1])
         IN  ParseDigits(Tail(s), radix, IF n > ParseCap THEN ParseCap ELSE n)

\* a returned value or a thrown error
Ok(v) == [ok |-> TRUE, val |-> v, err |-> ""]

Err(m) == [ok |-> FALSE, val |-> <<>>, err |-> m]

(***************************************************************************)
(* IPv6 (src/src/IPv6.ts)                                                  *)
(***************************************************************************)

\* the largest 16-bit group
GroupMax == 65535

Groups == 1..8

\* a bigint: its sign, its part above 2^128 and its low 128 bits as eight groups
BigOf(lo) == [neg |-> FALSE, hi |-> 0, lo |-> lo]

\* MAX = (2n**128n) - 1n
MAX == BigOf(<<GroupMax, GroupMax, GroupMax, GroupMax, GroupMax, GroupMax, GroupMax, GroupMax>>)

\* ZERO = 0n
ZERO == BigOf(<<0, 0, 0, 0, 0, 0, 0, 0>>)

\* a < b on bigints
bigLess(a, b) ==
    IF a.neg # b.neg THEN a.neg
    ELSE (IF a.neg THEN b.hi < a.hi ELSE a.hi < b.hi)
         \/ (a.hi = b.hi /\ \E i \in Groups :
                 /\ (IF a.neg THEN b.lo[i] < a.lo[i] ELSE a.lo[i] < b.lo[i])
                 /\ \A j \in 1..(i - 1) : a.lo[j] = b.lo[j])

\* IPV4PREFIX = 0xFFFF00000000n
IPV4PREFIX == <<0, 0, 0, 0, 0, GroupMax, 0, 0>>

\* IPV4MASK over the top 64 bits only
IPV4MASKShort == <<GroupMax, GroupMax, GroupMax, GroupMax, 0, GroupMax, 0, 0>>

\* IPV4MASK = 0xFFFFffffFFFFffffFFFFffff00000000n
IPV4MASK == <<GroupMax, GroupMax, GroupMax, GroupMax, GroupMax, GroupMax, 0, 0>>

RECURSIVE BitAnd(_, _)
\* a & b on non-negative integers
BitAnd(a, b) ==
    IF a = 0 \/ b = 0 THEN 0
    ELSE (a % 2) * (b % 2) + 2 * BitAnd(a \div 2, b \div 2)

\* a & b on 128-bit values
BigAnd(a, b) == [i \in Groups |-> BitAnd(a[i], b[i])]

\* HEXREGEX = /^(\d|[a-f])+$/i
HEXREGEX(s) == s # <<>> /\ \A i \in 1..Len(s) : IsHexDigit(s[i])

\* DECREGEX = /^\d+$/i
DECREGEX(s) == s # <<>> /\ \A i \in 1..Len(s) : IsDigit(s[i])

parseHex(value) ==
    IF HEXREGEX(value) THEN Ok(ParseDigits(value, 16, 0))
    ELSE Err("value is not a hexidecimal digit")

parseDecimal(value) ==
    IF DECREGEX(value) THEN Ok(ParseDigits(value, 10, 0))
    ELSE Err("value is not a decimal digit")

RECURSIVE matchCountOverlap(_, _)
\* matchCount that counts the matches at every position, overlapping ones too
matchCountOverlap(sub, s) ==
    IF Len(s) < Len(sub) THEN 0
    ELSE (IF StartsWith(s, sub) THEN 1 ELSE 0) + matchCountOverlap(sub, Tail(s))

RECURSIVE matchCount(_, _)
\* the number of non-overlapping matches, found left to right, of the literal sub in s
matchCount(sub, s) ==
    IF Len(s) < Len(sub) THEN 0
    ELSE IF StartsWith(s, sub) THEN 1 + matchCount(sub, Drop(s, Len(sub)))
    ELSE matchCount(sub, Tail(s))

RECURSIVE replaceAll(_, _, _)
\* String.prototype.replace with a global regular expression of one literal
replaceAll(s, sub, by) ==
    IF Len(s) < Len(sub) THEN s
    ELSE IF StartsWith(s, sub) THEN by \o replaceAll(Drop(s, Len(sub)), sub, by)
    ELSE <<s[1]>> \o replaceAll(Tail(s), sub, by)

\* value.replace(SPACEREGEX, ''): SPACEREGEX = /\s+/ has no g flag, so the first
\* run of whitespace is removed and no other
replaceSpace(s) ==
    IF \E i \in 1..Len(s) : IsSpace(s[i])
    THEN LET i == CHOOSE k \in 1..Len(s) : IsSpace(s[k]) /\ \A j \in 1..(k - 1) : ~IsSpace(s[j])
             e == CHOOSE k \in i..Len(s) :
                      /\ \A j \in i..k : IsSpace(s[j])
                      /\ (k = Len(s) \/ ~IsSpace(s[k + 1]))
         IN  Take(s, i - 1) \o Drop(s, e)
    ELSE s

RECURSIVE zeroGroupsShort(_)
\* zeroGroups with one group too few
zeroGroupsShort(n) == IF n <= 1 THEN <<>> ELSE <<"0", ":">> \o zeroGroupsShort(n - 1)

RECURSIVE zeroGroups(_)
\* the replacement built by the loop of lines 165-167, after its leading ':'
zeroGroups(n) == IF n <= 0 THEN <<>> ELSE <<"0", ":">> \o zeroGroups(n - 1)

RECURSIVE quadHexWide(_, _, _)
\* quadHex that lets a token up to 999 pass
quadHexWide(quads, i, hexStr) ==
    IF i > 4 THEN Ok(hexStr)
    ELSE LET d == parseDecimal(quads[i])
         IN  IF ~d.ok THEN Err("Invalid IP v 4 address")
             ELSE IF d.val < 0 \/ 999 < d.val THEN Err("Invalid IP v 4 address")
             ELSE quadHexWide(quads, i + 1, hexStr \o padStart(NumToString(d.val, 16), 2, "0"))

RECURSIVE quadHex(_, _, _)
\* the loop of lines 194-207 over quads[i..3]
quadHex(quads, i, hexStr) ==
    IF i > 4 THEN Ok(hexStr)
    ELSE LET d == parseDecimal(quads[i])
         IN  IF ~d.ok THEN Err("Invalid IP v 4 address")
             ELSE IF d.val < 0 \/ 255 < d.val THEN Err("Invalid IP v 4 address")
             ELSE quadHex(quads, i + 1, hexStr \o padStart(NumToString(d.val, 16), 2, "0"))

RECURSIVE groupHex(_, _)
\* the loop of lines 214-227: parts are popped from the end until none is left or
\* the popped part is the empty string, which is falsy
groupHex(parts, hexStr) ==
    IF parts = <<>> THEN Ok(hexStr)
    ELSE LET part == parts[Len(parts)]
             h    == parseHex(part)
         IN  IF part = <<>> THEN Ok(hexStr)
             ELSE IF ~h.ok THEN Err("Invalid IP v 6 address")
             ELSE IF h.val < 0 \/ GroupMax < h.val THEN Err("Invalid IP v 6 address")
             ELSE groupHex(Take(parts, Len(parts) - 1),
                           padStart(NumToString(h.val, 16), 4, "0") \o hexStr)

\* BigInt("0x" + hexStr) for at most 32 hex digits, as eight groups
BigIntOfHex(hexStr) ==
    IF hexStr = <<>> THEN Err("SyntaxError")
    ELSE LET h == padStart(hexStr, 32, "0")
         IN  Ok([i \in Groups |-> ParseDigits(SubSeq(h, 4 * i - 3, 4 * i), 16, 0)])

\* lines 229 and 210-227: the groups are parsed and the hex string becomes the value
fromStringValue(g) == IF ~g.ok THEN g ELSE BigIntOfHex(g.val)

\* line 210: the count of groups, the quad counting as hexStr.length / 4
fromStringCount(parts, q) ==
    IF ~q.ok THEN q
    ELSE IF 8 # (Len(q.val) \div 4) + Len(parts) THEN Err("Invalid address")
    ELSE fromStringValue(groupHex(parts, q.val))

\* lines 188-192: the quad must have four tokens
fromStringQuads(quads) ==
    IF 4 # Len(quads) THEN Err("Invalid IP v 4 address") ELSE quadHex(quads, 1, <<>>)

\* lines 183-208: the string is split on ':' and a dotted quad is popped off the end
fromStringParts(parts, hasIPv4) ==
    IF hasIPv4
    THEN fromStringCount(Take(parts, Len(parts) - 1), fromStringQuads(split(parts[Len(parts)], ".")))
    ELSE fromStringCount(parts, Ok(<<>>))

\* lines 177-180: a trailing ':' gets a '0' after it
fromStringTrail(value, hasIPv4) ==
    fromStringParts(split(IF value # <<>> /\ value[Len(value)] = ":" THEN value \o <<"0">> ELSE value, ":"),
                    hasIPv4)

\* lines 172-175: a leading ':' gets a '0' before it
fromStringLead(value, hasIPv4) ==
    fromStringTrail(IF 0 = indexOf(value, ":") THEN <<"0">> \o value ELSE value, hasIPv4)

\* lines 155-170: more than one '::' is an error, one is replaced by the missing groups
fromStringElide(value, hasIPv4, colonColons, colons) ==
    IF 1 < colonColons THEN Err("too many \"::\" in the IPv6 string")
    ELSE IF 1 = colonColons
    THEN fromStringLead(replaceAll(value, <<":", ":">>,
                                   <<":">> \o zeroGroups((IF hasIPv4 THEN 7 ELSE 8) - colons)),
                        hasIPv4)
    ELSE fromStringLead(value, hasIPv4)

\* lines 153 and 161: the matches of COLONSREGEX and of COLONREGEX are counted
fromStringColons(value, hasIPv4) ==
    fromStringElide(value, hasIPv4, matchCount(<<":", ":">>, value), matchCount(<<":">>, value))

\* fromStringV4 that puts '::' alone before a string without ':'
fromStringV4Plain(value, hasIPv4) ==
    IF indexOf(value, ":") < 0
    THEN IF ~hasIPv4 THEN Err("Invalid address")
         ELSE fromStringColons(<<":", ":">> \o value, hasIPv4)
    ELSE fromStringColons(value, hasIPv4)

\* lines 144-151: a string without ':' is an IPv4 address and gets the mapped prefix
fromStringV4(value, hasIPv4) ==
    IF indexOf(value, ":") < 0
    THEN IF ~hasIPv4 THEN Err("Invalid address")
         ELSE fromStringColons(<<":", ":", "F", "F", "F", "F", ":">> \o value, hasIPv4)
    ELSE fromStringColons(value, hasIPv4)

\* line 142
fromStringDots(value) == fromStringV4(value, 0 < lastIndexOf(value, "."))

\* fromString (lines 139-230): the value, or the error thrown
fromString(str) == fromStringDots(replaceSpace(str))

\* an argument of type IPv6|bigint|string|null: an instance or a bigint of the
\* value big, or a string of the given text
Arg(kind, big, text) == [kind |-> kind, big |-> big, text |-> text]

\* line 127: what fromString returned is the bigint
parsedBig(r) == IF r.ok THEN Ok(BigOf(r.val)) ELSE r

\* toBigInt (lines 118-131): the bigint, or the error thrown
toBigInt(value) ==
    IF value.kind = "null" THEN Err("missing parameter")
    ELSE IF value.kind = "IPv6" THEN Ok(value.big)
    ELSE IF value.kind = "string" THEN parsedBig(fromString(value.text))
    ELSE Ok(value.big)

\* static isIPv4, on a value
isIPv4(value) == IPV4PREFIX = BigAnd(IPV4MASK, value)

\* value.toString(16).padStart(32, '0').match(HEX4REGEX): the eight groups, each
\* as four hex digits
hexStrs(value) == [i \in Groups |-> padStart(NumToString(value[i], 16), 4, "0")]

RECURSIVE stripZeros(_)
stripZeros(s) == IF Len(s) > 1 /\ s[1] = "0" THEN stripZeros(Tail(s)) ELSE s

\* value.toString(16): the 32 hex digits without leading zeros
bigToString16(value) == stripZeros(join(hexStrs(value), <<>>))

RECURSIVE matchHex2(_)
\* s.match(HEX2REGEX) on a string of hex digits: the pairs from the left
matchHex2(s) == IF Len(s) < 2 THEN <<>> ELSE <<Take(s, 2)>> \o matchHex2(Drop(s, 2))

\* quadText of the first four pairs
quadTextFirst(hexPairs) ==
    join([i \in 1..4 |-> NumToString(ParseDigits(hexPairs[i], 16, 0), 10)], <<".">>)

\* lines 381-387: hexStrs.slice(-4), each pair as a decimal number, joined by '.'
quadText(hexPairs) ==
    join([i \in 1..4 |->
             NumToString(ParseDigits(Drop(hexPairs, IF Len(hexPairs) > 4 THEN Len(hexPairs) - 4 ELSE 0)[i],
                                     16, 0), 10)],
         <<".">>)

\* the body of static toIPv4String for an address whose isIPv4() is true (lines 380-387)
ipv4Text(value) == quadText(matchHex2(bigToString16(value)))

RECURSIVE streakRightmost(_, _, _, _, _, _)
\* streak with >= for >: among the longest runs the last one wins
streakRightmost(intParts, i, current_streak, current_start, longest_streak, longest_start) ==
    IF i > 8 THEN [longest_streak |-> longest_streak, longest_start |-> longest_start]
    ELSE IF 0 = intParts[i]
         THEN LET cs == current_streak + 1
                  st == IF current_start < 0 THEN i - 1 ELSE current_start
              IN  IF cs >= longest_streak
                  THEN streakRightmost(intParts, i + 1, cs, st, cs, st)
                  ELSE streakRightmost(intParts, i + 1, cs, st, longest_streak, longest_start)
         ELSE streakRightmost(intParts, i + 1, 0, -1, longest_streak, longest_start)

RECURSIVE streak(_, _, _, _, _, _)
\* the loop of lines 300-317; starts are 0-based, -1 for none
streak(intParts, i, current_streak, current_start, longest_streak, longest_start) ==
    IF i > 8 THEN [longest_streak |-> longest_streak, longest_start |-> longest_start]
    ELSE IF 0 = intParts[i]
         THEN LET cs == current_streak + 1
                  st == IF current_start < 0 THEN i - 1 ELSE current_start
              IN  IF cs > longest_streak
                  THEN streak(intParts, i + 1, cs, st, cs, st)
                  ELSE streak(intParts, i + 1, cs, st, longest_streak, longest_start)
         ELSE streak(intParts, i + 1, 0, -1, longest_streak, longest_start)

RECURSIVE headGroups(_, _, _)
\* the loop of lines 326-328
headGroups(intParts, i, stop) ==
    IF i > stop THEN <<>>
    ELSE NumToString(intParts[i], 16) \o <<":">> \o headGroups(intParts, i + 1, stop)

RECURSIVE tailGroups(_, _)
\* the loop of lines 329-331
tailGroups(intParts, i) ==
    IF i > 8 THEN <<>>
    ELSE <<":">> \o NumToString(intParts[i], 16) \o tailGroups(intParts, i + 1)

\* lines 319-335: all eight padded groups, or the groups around the longest streak
collapse(value, longest_streak, longest_start) ==
    IF longest_streak <= 1 THEN join(hexStrs(value), <<":">>)
    ELSE (IF 0 = longest_start THEN <<":">> ELSE <<>>)
         \o headGroups(value, 1, longest_start)
         \o tailGroups(value, longest_start + longest_streak + 1)
         \o (IF longest_start + longest_streak = 8 THEN <<":">> ELSE <<>>)

\* the result of the loop of lines 300-317, handed to lines 319-335
collapseStreak(value, r) == collapse(value, r.longest_streak, r.longest_start)

\* the else branch of static toIPv6String (lines 291-335)
hexGroupString(value) == collapseStreak(value, streak(value, 1, 0, -1, 0, -1))

\* an absent string (undefined) or a present one
NoStr == [has |-> FALSE, s |-> <<>>]

SomeStr(s) == [has |-> TRUE, s |-> s]

\* an IPv6 instance: its value and the two methods that replace themselves by a
\* closure over their first result (lines 259 and 408)
NewAddr(value) == [live |-> TRUE, value |-> value, isIPv4Memo |-> "unset", ipv4Memo |-> NoStr]

\* no instance: the constructor threw
NoAddr == [live |-> FALSE, value |-> <<0, 0, 0, 0, 0, 0, 0, 0>>, isIPv4Memo |-> "unset", ipv4Memo |-> NoStr]

\* newOfParsed without the test against MAX
newOfParsedNoMax(r) ==
    IF ~r.ok THEN [ret |-> Err(r.err), inst |-> NoAddr]
    ELSE IF bigLess(r.val, ZERO) THEN [ret |-> Err("value is negative"), inst |-> NoAddr]
    ELSE [ret |-> Ok(<<>>), inst |-> NewAddr(r.val.lo)]

\* lines 30-41 on what toBigInt returned
newOfParsed(r) ==
    IF ~r.ok THEN [ret |-> Err(r.err), inst |-> NoAddr]
    ELSE IF bigLess(MAX, r.val) THEN [ret |-> Err("value has more than 128 bits"), inst |-> NoAddr]
    ELSE IF bigLess(r.val, ZERO) THEN [ret |-> Err("value is negative"), inst |-> NoAddr]
    ELSE [ret |-> Ok(<<>>), inst |-> NewAddr(r.val.lo)]

\* new IPv6(string): toBigInt and fromString
newFromString(str) == newOfParsed(toBigInt(Arg("string", ZERO, str)))

\* line 259: the method is replaced by a closure over isV4
setIsIPv4(a, isV4) ==
    [ret |-> isV4, inst |-> [a EXCEPT !.isIPv4Memo = IF isV4 THEN "true" ELSE "false"]]

\* the instance method isIPv4 (lines 255-262), or the closure it left behind
instIsIPv4(a) ==
    IF a.isIPv4Memo # "unset" THEN [ret |-> a.isIPv4Memo = "true", inst |-> a]
    ELSE setIsIPv4(a, isIPv4(a.value))

\* setIPv4String whose closure holds the string without its last character
setIPv4StringCut(a, ipv4Str) ==
    [ret |-> Ok(ipv4Str), inst |-> [a EXCEPT !.ipv4Memo = SomeStr(Take(ipv4Str, Len(ipv4Str) - 1))]]

\* line 408: the method is replaced by a closure over ipv4Str
setIPv4String(a, ipv4Str) == [ret |-> Ok(ipv4Str), inst |-> [a EXCEPT !.ipv4Memo = SomeStr(ipv4Str)]]

\* static toIPv4String (lines 374-391) after its call of isIPv4 on the instance. The
\* error carries its message as val: ipv6.toString() of line 390 finds isIPv4()
\* false and gives toIPv6String(), which takes the branch of lines 291-335
staticToIPv4String(i) ==
    IF i.ret THEN setIPv4String(i.inst, ipv4Text(i.inst.value))
    ELSE [ret |-> [ok |-> FALSE,
                   val |-> <<"N", "o", "t", " ", "a", "n", " ", "I", "P", "v", "4", " ", "a", "d", "d", "r", "e", "s", "s", ":", " ", " ", "\"">> \o hexGroupString(i.inst.value) \o <<"\"">>,
                   err |-> "Not an IPv4 address"],
          inst |-> i.inst]

\* the instance method toIPv4String (lines 404-411), or the closure it left behind
instToIPv4String(a) ==
    IF a.ipv4Memo.has THEN [ret |-> Ok(a.ipv4Memo.s), inst |-> a]
    ELSE staticToIPv4String(instIsIPv4(a))

\* line 288: '::ffff:' + ipv6.toIPv4String()
mappedString(t) == [ret |-> Ok(<<":", ":", "f", "f", "f", "f", ":">> \o t.ret.val), inst |-> t.inst]

\* staticToIPv6String that ignores dotDec
staticToIPv6StringDotted(i, dotDec) ==
    IF i.ret THEN mappedString(instToIPv4String(i.inst))
    ELSE [ret |-> Ok(hexGroupString(i.inst.value)), inst |-> i.inst]

\* static toIPv6String (lines 282-340) after its call of isIPv4 on the instance
staticToIPv6String(i, dotDec) ==
    IF i.ret /\ dotDec THEN mappedString(instToIPv4String(i.inst))
    ELSE [ret |-> Ok(hexGroupString(i.inst.value)), inst |-> i.inst]

\* the instance method toIPv6String (lines 359-362)
instToIPv6String(a, dotDec) == staticToIPv6String(instIsIPv4(a), dotDec)

\* toStringOf that always gives the IPv6 string
toStringOfV6(i) == instToIPv6String(i.inst, TRUE)

\* toString (lines 417-422) after its call of isIPv4
toStringOf(i) == IF i.ret THEN instToIPv4String(i.inst) ELSE instToIPv6String(i.inst, TRUE)

\* the instance method toString (lines 417-422)
instToString(a) == toStringOf(instIsIPv4(a))

\* static toIPv6String of a bigint: IPv6.from makes a fresh instance
toIPv6String(value, dotDec) == instToIPv6String(NewAddr(value), dotDec).ret.val

\* compareBig with the two results exchanged
compareBigFlip(first, second) ==
    IF ~first.ok THEN Err(first.err)
    ELSE IF ~second.ok THEN Err(second.err)
    ELSE Ok(IF bigLess(first.val, second.val) THEN 1
            ELSE IF bigLess(second.val, first.val) THEN -1 ELSE 0)

\* lines 437-438 on what the two calls of toBigInt returned
compareBig(first, second) ==
    IF ~first.ok THEN Err(first.err)
    ELSE IF ~second.ok THEN Err(second.err)
    ELSE Ok(IF bigLess(first.val, second.val) THEN -1
            ELSE IF bigLess(second.val, first.val) THEN 1 ELSE 0)

\* static compare (lines 432-439); the instance method (lines 449-452) hands this
\* and other to it
compare(first, second) == compareBig(toBigInt(first), toBigInt(second))

\* equals that takes a failed comparison for equality
equalsLoose(first, second) ==
    IF first.kind = "null" THEN second.kind = "null"
    ELSE IF second.kind # "null"
         THEN ~compare(first, second).ok \/ 0 = compare(first, second).val
         ELSE FALSE

\* static equals (lines 460-477); the instance method (lines 486-489) hands this and
\* other to it
equals(first, second) ==
    IF first.kind = "null" THEN second.kind = "null"
    ELSE IF second.kind # "null"
         THEN compare(first, second).ok /\ 0 = compare(first, second).val
         ELSE FALSE

(***************************************************************************)
(* The IPv6 operations as actions                                          *)
(***************************************************************************)

\* what an IPv6 operation returned: a string (str), a boolean (flag), a number (num)
\* or an error
ARet(op, dotDec, ok, str, flag, err, num) ==
    [op |-> op, dotDec |-> dotDec, ok |-> ok, str |-> str, flag |-> flag, err |-> err, num |-> num]

NoOrigin == [has |-> FALSE, value |-> <<0, 0, 0, 0, 0, 0, 0, 0>>, text |-> <<>>]

\* the 128-bit values the model constructs: every pattern of zero groups, over each filler
AddrValues ==
    {[i \in Groups |-> IF i \in S THEN 0 ELSE F[i]] :
        S \in SUBSET Groups,
        F \in { <<1, 2, 3, 4, 5, GroupMax, 2560, 1>>,
                <<GroupMax, 4660, 171, 16, 43981, 1, 49320, 255>> }}

\* address strings handed to the constructor (test/IPv6.ts)
AddrTexts ==
    { <<":", ":", "1">>,
      <<"1", "9", "2", ".", "1", "6", "8", ".", "0", ".", "1">>,
      <<":", ":", "F", "F", "F", "F", ":", "1", "0", ".", "0", ".", "0", ".", "1">>,
      <<"0", "0", "0", "0", ":", ":", "0", ":", "F", "F", "F", "F", ":", "a", "0", "0", ":", "1">>,
      <<"f", "e", "8", "0", ":", "0", ":", "0", ":", "0", ":", "2", "0", "2", ":", "0", ":", "0", ":", "8", "3", "2", "9">>,
      <<"1", "9", "2">>,
      <<":", ":", "f", "f", "f", "f", ":", "1", "9", "2", ".", "1", "6", "8">>,
      <<"1", "0", ".", "0", ".", "2", "6", "0", ".", "1">>,
      <<"a", ":", ":", "b", ":", ":", "1", ":", "2">>,
      <<"a", ":", "a", ":", "a", ":", "a", ":", "a", ":", "a", ":", "a", ":", "a", ":", "a">>,
      <<"1", ":", ":", "g">>,
      <<"1", ":", ":", "1", "0", "0", "0", "0">> }
    \cup LET quads == { <<0, 0, 0, 0>>, <<255, 255, 255, 255>>, <<10, 0, 0, 1>>, <<127, 0, 0, 1>>,
                        <<1, 2, 3, 4>>, <<9, 10, 99, 100>>, <<200, 16, 255, 0>> }
         IN  {p \o join([i \in 1..4 |-> NumToString(q[i], 10)], <<".">>) :
                  p \in {<<>>, <<":", ":", "f", "f", "f", "f", ":">>, <<":", ":", "F", "F", "F", "F", ":">>}, q \in quads}
             \cup {<<":", ":", "f", "f", "f", "f", ":">> \o NumToString(q[1] * 256 + q[2], 16)
                        \o <<":">> \o NumToString(q[3] * 256 + q[4], 16) : q \in quads}
    \cup { <<"1", ".", "2", ".", "3">>,
           <<"1", ".", "2", ".", "3", ".", "4", ".", "5">>,
           <<"1", ".", "2", ".", "3", ".", "2", "5", "6">>,
           <<"1", ".", "2", ".", "3", ".", "a">>,
           <<"0", "1", "0", ".", "0", ".", "0", ".", "1">>,
           <<"5", ".">>,
           <<".", "5">>,
           <<>>,
           <<":", ":", "f", "f", "f", "f", ":", "1", ".", ".", "3", ".", "4">>,
           <<":", ":", "f", "f", "f", "f", ":", "1", ".", "2", ".", "3">>,
           <<":", ":", "1", ".", "2", ".", "3", ".">>,
           <<":", ":", "1", ".", "2", ".", "3", ".", "4", "a">>,
           <<":", ":", "f", "f", "f", "f", ":", "1", ".", "2", ".", "3", ".", "-", "4">>,
           <<":", ":", "f", "f", "f", "f", ":", "1", ".", "2", ".", "3", ".", "4", ".", "5">>,
           <<":", ":", "f", "f", "f", "f", ":", "3", "0", "0", ".", "1", ".", "1", ".", "1">>,
           <<"1", ":", "2", ":", "3", ":", "4", ":", "5", ":", "6", ":", "7", ":", "1", ".", "2", ".", "3", ".", "4">>,
           <<"1", ":", "2", ":", "3", ":", "4", ":", "5", ":", "6", ":", "1", ".", "2", ".", "3", ".", "4">>,
           <<":", ":", "1", ":", ":", "1", ".", "2", ".", "3">>,
           <<"1", ":", ":", "2", ":", ":", "1", ".", "2", ".", "3", ".", "4", "0", "0">>,
           <<"1", ".", "2", ".", "3", ".", "4", ":", ":">> }
    \cup { <<"1", ":", ":", ":", "2">>,
           <<":", ":", ":", ":">>,
           <<"1", ":", ":", "2", ":", ":", "3">>,
           <<":", ":", "1", ":", ":">>,
           <<"1", ":", "2", ":", ":", ":", "3">>,
           <<":", ":", ":", "1">>,
           <<":", ":", "0", "0", "0", "0", "1">>,
           <<"0", "0", "0", "0", "1", ":", "0", ":", "0", ":", "0", ":", "0", ":", "0", ":", "0", ":", "1">>,
           <<":", ":", "1", "2", "3", "4", "5">>,
           <<":", ":", "0", "0", "0", "0", "0", "0", "0", "a">>,
           <<"1", ":", "2", ":", "3", ":", "4", ":", "5", ":", "6", ":", "7", ":", "0", "0", "0", "8">>,
           <<":", "1", ":", "2", ":", "3", ":", "4", ":", "5", ":", "6", ":", "7">>,
           <<"1", ":", "2", ":", "3", ":", "4", ":", "5", ":", "6", ":", "7", ":">>,
           <<"1", ":", "2", ":", "3", ":", "4", ":", "5", ":", "6", ":", "7">>,
           <<"1", ":", "2", ":", "3", ":", "4", ":", "5", ":", "6", ":", "7", ":", "8">>,
           <<":", "1", ":", "2", ":", "3", ":", "4", ":", "5", ":", "6", ":", "7", ":", "8">>,
           <<"1", ":", "2", ":", "3", ":", "4", ":", "5", ":", "6", ":", "7", ":", "8", ":">>,
           <<"1", ":", "2", ":", "3", ":", "4", ":", ":", "5", ":", "6", ":", "7", ":", "8">>,
           <<":", ":", "1", ":", "2", ":", "3", ":", "4", ":", "5", ":", "6", ":", "7", ":", "8">>,
           <<"1", ":", "2", ":", "3", ":", "4", ":", "5", ":", "6", ":", "7", ":", "8", ":", ":">>,
           <<"1", ":", "2", ":", "3", ":", ":", "4", ":", "5", ":", "6", ":", "7">>,
           <<"1", ":", "2", ":", "3", ":", "4", ":", "5", ":", "6", ":", "7", ":", ":">>,
           <<":", ":", "2", ":", "3", ":", "4", ":", "5", ":", "6", ":", "7", ":", "8">>,
           <<":", ":">>,
           <<"1", ":", ":">>,
           <<"1", ":", "2", ":", ":", "1", ".", "2", ".", "3", ".", "4">>,
           <<"1", ":", "2", ":", "3", ":", "4", ":", "5", ":", ":", "6", ":", "1", ".", "2", ".", "3", ".", "4">>,
           <<":", ":", "1", ":", "2", ":", "3", ":", "4", ":", "5", ":", "1", ".", "2", ".", "3", ".", "4">>,
           <<"1", ":", "2", ":", "3", ":", "4", ":", "5", ":", ":", "6", ":", "7", ":", "8", ":", "9">>,
           <<" ", ":", ":", "1">>,
           <<":", ":", "1", " ">>,
           <<" ", ":", ":", "1", " ">>,
           <<"\t", "1", "0", ".", "0", ".", "0", ".", "1", " ">>,
           <<" ", "1", ":", "2", ":", "3", ":", "4", ":", "5", ":", "6", ":", "7", ":", "8", " ", " ">>,
           <<"1", ":", " ", ":", "2">> }

\* the arguments handed to the static methods: null, bigints in and out of range,
\* instances, and strings that can and that cannot be parsed
Operands ==
    { Arg("null", ZERO, <<>>),
      Arg("bigint", ZERO, <<>>),
      Arg("bigint", BigOf(<<0, 0, 0, 0, 0, 0, 0, 1>>), <<>>),
      Arg("bigint", BigOf(<<0, 0, 0, 0, 0, GroupMax, 2560, 1>>), <<>>),
      Arg("bigint", MAX, <<>>),
      Arg("bigint", [neg |-> TRUE, hi |-> 0, lo |-> <<0, 0, 0, 0, 0, 0, 0, 1>>], <<>>),
      Arg("bigint", [neg |-> FALSE, hi |-> 1, lo |-> <<0, 0, 0, 0, 0, 0, 0, 0>>], <<>>),
      Arg("IPv6", ZERO, <<>>),
      Arg("IPv6", BigOf(<<0, 0, 0, 0, 0, GroupMax, 2560, 1>>), <<>>),
      Arg("IPv6", BigOf(<<16, 0, 0, 0, 0, 0, 0, 0>>), <<>>),
      Arg("string", ZERO, <<":", ":">>),
      Arg("string", ZERO, <<"0", ":", "0", ":", "0", ":", "0", ":", "0", ":", "0", ":", "0", ":", "0">>),
      Arg("string", ZERO, <<":", ":", "1">>),
      Arg("string", ZERO, <<"1", "0", ".", "0", ".", "0", ".", "1">>),
      Arg("string", ZERO, <<":", ":", "f", "f", "f", "f", ":", "a", "0", "0", ":", "1">>),
      Arg("string", ZERO, <<":", ":", "F", "F", "F", "F", ":", "1", "0", ".", "0", ".", "0", ".", "1">>),
      Arg("string", ZERO, <<"9", ":", ":">>),
      Arg("string", ZERO, <<"1", "0", ":", ":">>),
      Arg("string", ZERO, <<"0", "0", "1", "0", ":", "0", ":", "0", ":", "0", ":", "0", ":", "0", ":", "0", ":", "0">>),
      Arg("string", ZERO, <<"f", "f", "f", "f", ":", "f", "f", "f", "f", ":", "f", "f", "f", "f", ":", "f", "f", "f", "f", ":", "f", "f", "f", "f", ":", "f", "f", "f", "f", ":", "f", "f", "f", "f", ":", "f", "f", "f", "f">>),
      Arg("string", ZERO, <<"1", ":", ":", "g">>),
      Arg("string", ZERO, <<":", ":", "1", ":", ":">>),
      Arg("string", ZERO, <<"1", "9", "2">>) }

\* the instance left by a call and the string it returned, or the error it threw
Returned(op, dotDec, r) ==
    /\ addr' = r.inst
    /\ aret' = ARet(op, dotDec, r.ret.ok, r.ret.val, FALSE, r.ret.err, 0)

\* the instance left by a call and the boolean it returned
ReturnedFlag(op, r) ==
    /\ addr' = r.inst
    /\ aret' = ARet(op, FALSE, TRUE, <<>>, r.ret, "", 0)

\* new IPv6(value) with a bigint: the first instance of a behaviour
NewFromBigInt ==
    /\ aret.op = "init"
    /\ \E b \in {BigOf(v) : v \in AddrValues} \cup {o.big : o \in {p \in Operands : p.kind = "bigint"}} :
          /\ Returned("new", FALSE, newOfParsed(toBigInt(Arg("bigint", b, <<>>))))
          /\ args' = <<Arg("bigint", b, <<>>)>>
    /\ origin' = NoOrigin
    /\ flagsUsed' = {}
    /\ UNCHANGED urlVars

\* new IPv6(str) with a string: the first instance of a behaviour
NewFromString ==
    /\ aret.op = "init"
    /\ \E str \in AddrTexts :
          /\ Returned("new", FALSE, newFromString(str))
          /\ args' = <<Arg("string", ZERO, str)>>
    /\ origin' = NoOrigin
    /\ flagsUsed' = {}
    /\ UNCHANGED urlVars

\* new IPv6(addr): a second instance of the same value, made of a fresh instance
NewFromAddr ==
    /\ addr.live
    /\ aret.op = "new"
    /\ args[1].kind # "IPv6"
    /\ Returned("new", FALSE, newOfParsed(toBigInt(Arg("IPv6", BigOf(addr.value), <<>>))))
    /\ args' = <<Arg("IPv6", BigOf(addr.value), <<>>)>>
    /\ origin' = NoOrigin
    /\ flagsUsed' = {}
    /\ UNCHANGED urlVars

\* new IPv6(addr.toIPv6String(flag)): the string just rendered is parsed
NewFromRendered ==
    /\ addr.live
    /\ aret.op = "toIPv6String"
    /\ aret.ok
    /\ Returned("new", FALSE, newFromString(aret.str))
    /\ args' = <<Arg("string", ZERO, aret.str)>>
    /\ origin' = [has |-> TRUE, value |-> addr.value, text |-> aret.str]
    /\ flagsUsed' = {}
    /\ UNCHANGED urlVars

\* addr.isIPv4()
IsIPv4 ==
    /\ addr.live
    /\ ReturnedFlag("isIPv4", instIsIPv4(addr))
    /\ UNCHANGED <<origin, args, flagsUsed, urlVars>>

\* IPv6.isIPv4(addr) (lines 241-244)
StaticIsIPv4 ==
    /\ addr.live
    /\ ReturnedFlag("staticIsIPv4",
                    [ret |-> isIPv4(toBigInt(Arg("IPv6", BigOf(addr.value), <<>>)).val.lo), inst |-> addr])
    /\ UNCHANGED <<origin, args, flagsUsed, urlVars>>

\* addr.toIPv6String(dotDec)
ToIPv6String ==
    /\ addr.live
    /\ \E dotDec \in BOOLEAN :
          /\ Returned("toIPv6String", dotDec, instToIPv6String(addr, dotDec))
          /\ flagsUsed' = flagsUsed \cup {dotDec}
    /\ UNCHANGED <<origin, args, urlVars>>

\* addr.toIPv4String()
ToIPv4String ==
    /\ addr.live
    /\ Returned("toIPv4String", FALSE, instToIPv4String(addr))
    /\ UNCHANGED <<origin, args, flagsUsed, urlVars>>

\* addr.toString()
AddrToString ==
    /\ addr.live
    /\ Returned("toString", FALSE, instToString(addr))
    /\ UNCHANGED <<origin, args, flagsUsed, urlVars>>

\* IPv6.compare(first, second)
Compare ==
    /\ aret.op = "init"
    /\ \E first \in Operands, second \in Operands :
          LET r == compare(first, second)
          IN  /\ aret' = ARet("compare", FALSE, r.ok, <<>>, FALSE, r.err, IF r.ok THEN r.val ELSE 0)
              /\ args' = <<first, second>>
    /\ UNCHANGED <<addr, origin, flagsUsed, urlVars>>

\* IPv6.equals(first, second)
Equals ==
    /\ aret.op = "init"
    /\ \E first \in Operands, second \in Operands :
          /\ aret' = ARet("equals", FALSE, TRUE, <<>>, equals(first, second), "", 0)
          /\ args' = <<first, second>>
    /\ UNCHANGED <<addr, origin, flagsUsed, urlVars>>

(***************************************************************************)
(* HttpURL and QueryParam (src/src/HttpURL.ts)                             *)
(***************************************************************************)

\* Unreserved without the period
UnreservedNoPeriod(hexNum) ==
    \/ (65 <= hexNum /\ hexNum <= 90)
    \/ (97 <= hexNum /\ hexNum <= 122)
    \/ (48 <= hexNum /\ hexNum <= 57)
    \/ 45 = hexNum
    \/ 95 = hexNum
    \/ 126 = hexNum

\* Unreserved with the percent sign added
UnreservedWithPercent(hexNum) ==
    \/ (65 <= hexNum /\ hexNum <= 90)
    \/ (97 <= hexNum /\ hexNum <= 122)
    \/ (48 <= hexNum /\ hexNum <= 57)
    \/ hexNum \in {37, 45, 46, 95, 126}

\* the unreserved bytes of lines 54-60
Unreserved(hexNum) ==
    \/ (65 <= hexNum /\ hexNum <= 90)
    \/ (97 <= hexNum /\ hexNum <= 122)
    \/ (48 <= hexNum /\ hexNum <= 57)
    \/ 45 = hexNum
    \/ 46 = hexNum
    \/ 95 = hexNum
    \/ 126 = hexNum

\* pctReplace that leaves the case of a kept triplet as it is
pctReplaceKeepCase(match) ==
    LET hexNum == ParseDigits(SubSeq(match, 2, 3), 16, 0)
    IN  IF Unreserved(hexNum) THEN <<Chr(hexNum)>> ELSE match

\* the replacer of lines 49-67, on one match of pctXX
pctReplace(match) ==
    LET hexNum == ParseDigits(SubSeq(match, 2, 3), 16, 0)
    IN  IF Unreserved(hexNum) THEN <<Chr(hexNum)>> ELSE toUpperCase(match)

\* pctXX = /%([\da-f]{2})/gi at the start of s
IsTriplet(s) == Len(s) >= 3 /\ s[1] = "%" /\ IsHexDigit(s[2]) /\ IsHexDigit(s[3])

RECURSIVE pctNormalize(_)
\* String(url).replace(HttpURL.pctXX, replacer): the matches are found left to right
\* in the original string
pctNormalize(s) ==
    IF s = <<>> THEN <<>>
    ELSE IF IsTriplet(s) THEN pctReplace(Take(s, 3)) \o pctNormalize(Drop(s, 3))
    ELSE <<s[1]>> \o pctNormalize(Tail(s))

\* [-\w_\.!~*'():&=+\$,/] of the path (line 31)
IsPathChar(c) == IsWord(c) \/ c \in {"-", ".", "!", "~", "*", "'", "(", ")", ":", "&", "=", "+", "$", ",", "/"}

\* [-\w_\.!~*'();&=+\$,/?:@[\]] of the query and the fragment (lines 32-33)
IsQueryChar(c) ==
    IsWord(c) \/ c \in {"-", ".", "!", "~", "*", "'", "(", ")", ";", "&", "=", "+", "$", ",", "/", "?", ":", "@", "[", "]"}

RECURSIVE pathRun(_)
\* the length of the longest prefix of s made of %XX triplets and path characters
pathRun(s) ==
    IF s = <<>> THEN 0
    ELSE IF IsTriplet(s) THEN 3 + pathRun(Drop(s, 3))
    ELSE IF IsPathChar(s[1]) THEN 1 + pathRun(Tail(s))
    ELSE 0

RECURSIVE queryRun(_)
\* the length of the longest prefix of s made of %XX triplets and query characters
queryRun(s) ==
    IF s = <<>> THEN 0
    ELSE IF IsTriplet(s) THEN 3 + queryRun(Drop(s, 3))
    ELSE IF IsQueryChar(s[1]) THEN 1 + queryRun(Tail(s))
    ELSE 0

RECURSIVE trimStart(_)
trimStart(s) == IF s # <<>> /\ IsSpace(s[1]) THEN trimStart(Tail(s)) ELSE s

RECURSIVE trimEnd(_)
trimEnd(s) == IF s # <<>> /\ IsSpace(s[Len(s)]) THEN trimEnd(Take(s, Len(s) - 1)) ELSE s

RECURSIVE runOf(_, _)
\* the length of the longest prefix of s whose characters are all in the set
runOf(s, set) == IF s # <<>> /\ s[1] \in set THEN 1 + runOf(Tail(s), set) ELSE 0

HostChars == {c \in Chars : IsWord(c) \/ c = "." \/ c = "-"}

DigitChars == {c \in Chars : IsDigit(c)}

\* [:\.\da-f] under the i flag (line 25)
Ipv6Chars == {c \in Chars : IsHexDigit(c) \/ c = ":" \/ c = "."}

\* (?:\d{1,3}\.){3}\d{1,3} on a whole token (line 24)
IsIpv4Host(t) ==
    LET p == split(t, ".")
    IN  /\ Len(p) = 4
        /\ \A i \in 1..4 : Len(p[i]) >= 1 /\ Len(p[i]) <= 3 /\ \A j \in 1..Len(p[i]) : IsDigit(p[i][j])

\* \w | \w[\w-]*\w
IsLabel(l) ==
    /\ l # <<>>
    /\ IsWord(l[1])
    /\ IsWord(l[Len(l)])
    /\ \A j \in 1..Len(l) : IsWord(l[j]) \/ l[j] = "-"

\* the subdomains and tld of lines 26-29 on a whole token
IsHostname(t) ==
    LET p == split(t, ".")
    IN  \A i \in 1..Len(p) : IsLabel(p[i])

\* the groups 1..8 of a match, each undefined or the text it captured
NoParts ==
    [matched |-> FALSE, p1 |-> NoStr, p2 |-> NoStr, p3 |-> NoStr, p4 |-> NoStr,
     p5 |-> NoStr, p6 |-> NoStr, p7 |-> NoStr, p8 |-> NoStr]

\* \s*$ (line 34) after trimming: nothing may be left
rxEnd(parts, r) == IF r = <<>> THEN [parts EXCEPT !.matched = TRUE] ELSE NoParts

\* group 8, the fragment (line 33)
rxFragmentRun(parts, r, n) == rxEnd([parts EXCEPT !.p8 = SomeStr(Take(r, n))], Drop(r, n))

rxFragment(parts, r) ==
    IF r # <<>> /\ r[1] = "#" THEN rxFragmentRun(parts, Tail(r), queryRun(Tail(r)))
    ELSE rxEnd(parts, r)

\* group 7, the query (line 32)
rxQueryRun(parts, r, n) == rxFragment([parts EXCEPT !.p7 = SomeStr(Take(r, n))], Drop(r, n))

rxQuery(parts, r) ==
    IF r # <<>> /\ r[1] = "?" THEN rxQueryRun(parts, Tail(r), queryRun(Tail(r)))
    ELSE rxFragment(parts, r)

\* group 6, the path (line 31)
rxPathRun(parts, r, n) == rxQuery([parts EXCEPT !.p6 = SomeStr(Take(r, n))], Drop(r, n))

rxPath(parts, r) ==
    IF r # <<>> /\ r[1] = "/" THEN rxPathRun(parts, Tail(r), pathRun(Tail(r)))
    ELSE rxQuery(parts, r)

\* group 5, the port: -?\d{1,10} (line 30)
rxPortDigits(parts, sign, r, n) ==
    IF n >= 1 /\ n <= 10 THEN rxPath([parts EXCEPT !.p5 = SomeStr(sign \o Take(r, n))], Drop(r, n))
    ELSE NoParts

rxPort(parts, r) ==
    IF r # <<>> /\ r[1] = ":"
    THEN IF Len(r) >= 2 /\ r[2] = "-"
         THEN rxPortDigits(parts, <<"-">>, Drop(r, 2), runOf(Drop(r, 2), DigitChars))
         ELSE rxPortDigits(parts, <<>>, Tail(r), runOf(Tail(r), DigitChars))
    ELSE rxPath(parts, r)

\* group 3, the bracketed literal (line 25)
rxBracket(parts, r, n) ==
    IF n >= 1 /\ Len(r) > n /\ r[n + 1] = "]"
    THEN rxPort([parts EXCEPT !.p3 = SomeStr(Take(r, n))], Drop(r, n + 1))
    ELSE NoParts

\* group 2, the dotted quad (line 24), else group 4, the host name (lines 26-29)
rxToken(parts, tok, r) ==
    IF IsIpv4Host(tok) THEN rxPort([parts EXCEPT !.p2 = SomeStr(tok)], r)
    ELSE IF IsHostname(tok) THEN rxPort([parts EXCEPT !.p4 = SomeStr(tok)], r)
    ELSE NoParts

rxHost(parts, r) ==
    IF r # <<>> /\ r[1] = "[" THEN rxBracket(parts, Tail(r), runOf(Tail(r), Ipv6Chars))
    ELSE rxToken(parts, Take(r, runOf(r, HostChars)), Drop(r, runOf(r, HostChars)))

\* group 1, the scheme (line 23), under the i flag
rxScheme(t, low) ==
    IF StartsWith(low, <<"h", "t", "t", "p", ":", "/", "/">>) THEN rxHost([NoParts EXCEPT !.p1 = SomeStr(Take(t, 4))], Drop(t, 7))
    ELSE IF StartsWith(low, <<"h", "t", "t", "p", "s", ":", "/", "/">>) THEN rxHost([NoParts EXCEPT !.p1 = SomeStr(Take(t, 5))], Drop(t, 8))
    ELSE rxHost(NoParts, t)

\* HttpURL.regEx.exec(url) (lines 21-35 and 69): the groups of the match, or no match.
\* The expression is anchored and every group is followed by a character that no
\* earlier group can hold, so the groups are found in one scan from the left.
regExExec(str) ==
    rxScheme(trimEnd(trimStart(str)), toLowerCase(trimEnd(trimStart(str))))

\* a string is truthy when it is defined and not empty
Truthy(p) == p.has /\ p.s # <<>>

\* parseInt(parts[5], 10) of -?\d{1,10}
parsePort(s) == IF s[1] = "-" THEN 0 - ParseDigits(Tail(s), 10, 0) ELSE ParseDigits(s, 10, 0)

RECURSIVE pathWalkClamp(_, _, _)
\* pathWalk that ignores a '..' on an empty stack
pathWalkClamp(segs, i, pathStack) ==
    IF i > Len(segs) THEN Ok(pathStack)
    ELSE LET segment == segs[i]
         IN  IF segment # <<>> /\ segment # <<".">>
             THEN IF segment = <<".", ".">>
                  THEN IF pathStack = <<>> THEN pathWalkClamp(segs, i + 1, pathStack)
                       ELSE pathWalkClamp(segs, i + 1, Take(pathStack, Len(pathStack) - 1))
                  ELSE pathWalkClamp(segs, i + 1, Append(pathStack, segment))
             ELSE pathWalkClamp(segs, i + 1, pathStack)

RECURSIVE pathWalk(_, _, _)
\* the loop of lines 104-116 from segment i on: the stack, or the throw of line 110
pathWalk(segs, i, pathStack) ==
    IF i > Len(segs) THEN Ok(pathStack)
    ELSE LET segment == segs[i]
         IN  IF segment # <<>> /\ segment # <<".">>
             THEN IF segment = <<".", ".">>
                  THEN IF pathStack = <<>> THEN Err("Invalid path")
                       ELSE pathWalk(segs, i + 1, Take(pathStack, Len(pathStack) - 1))
                  ELSE pathWalk(segs, i + 1, Append(pathStack, segment))
             ELSE pathWalk(segs, i + 1, pathStack)

RECURSIVE matchQSep(_)
\* parts[7].match(qSep) with qSep = /[^&;]+/g: the maximal runs free of '&' and ';'
matchQSep(s) ==
    LET sep(c) == c = "&" \/ c = ";"
    IN  IF s = <<>> THEN <<>>
        ELSE IF sep(s[1]) THEN matchQSep(Tail(s))
        ELSE LET n == CHOOSE k \in 1..Len(s) :
                          /\ \A j \in 1..k : ~sep(s[j])
                          /\ (k = Len(s) \/ sep(s[k + 1]))
             IN  <<Take(s, n)>> \o matchQSep(Drop(s, n))

\* new QueryParam(name) (lines 196-209); toString leaves a closure over its result
QueryParam(name) ==
    LET eqIdx == indexOf(name, "=")
    IN  IF 0 <= eqIdx
        THEN [name |-> Take(name, eqIdx), value |-> SomeStr(Drop(name, eqIdx + 1)), strMemo |-> NoStr]
        ELSE [name |-> name, value |-> NoStr, strMemo |-> NoStr]

RECURSIVE StrLess(_, _)
\* a < b on strings: by code unit, a proper prefix first
StrLess(a, b) ==
    IF b = <<>> THEN FALSE
    ELSE IF a = <<>> THEN TRUE
    ELSE IF a[1] # b[1] THEN Code(a[1]) < Code(b[1])
    ELSE StrLess(Tail(a), Tail(b))

\* value || ''
OrEmpty(v) == IF Truthy(v) THEN v.s ELSE <<>>

\* qpCompare by name only
qpCompareNameOnly(qa, qb) ==
    IF StrLess(qa.name, qb.name) THEN -1 ELSE IF StrLess(qb.name, qa.name) THEN 1 ELSE 0

\* QueryParam.compare (lines 230-247)
qpCompare(qa, qb) ==
    LET an == qa.name
        av == OrEmpty(qa.value)
        bn == qb.name
        bv == OrEmpty(qb.value)
        comp == IF StrLess(an, bn) THEN -1 ELSE IF StrLess(bn, an) THEN 1 ELSE 0
    IN  IF 0 = comp
        THEN (IF StrLess(av, bv) THEN -1 ELSE IF StrLess(bv, av) THEN 1 ELSE 0)
        ELSE comp

RECURSIVE sortInsert(_, _)
\* q placed after every element of the sorted list that does not compare above it
sortInsert(sorted, q) ==
    IF sorted = <<>> THEN <<q>>
    ELSE IF qpCompare(q, sorted[1]) < 0 THEN <<q>> \o sorted
    ELSE <<sorted[1]>> \o sortInsert(Tail(sorted), q)

RECURSIVE sortQuery(_, _)
\* this.query.sort(QueryParam.compare): Array.prototype.sort is stable
sortQuery(list, sorted) ==
    IF list = <<>> THEN sorted
    ELSE sortQuery(Tail(list), sortInsert(sorted, list[1]))

\* queries.forEach(q => this.query.push(new QueryParam(q))) and the sort (lines 129-134)
parseQuery(p7) ==
    IF Truthy(p7)
    THEN LET queries == matchQSep(p7.s)
         IN  sortQuery([i \in 1..Len(queries) |-> QueryParam(queries[i])], <<>>)
    ELSE <<>>

\* QueryParam.toString (lines 211-218), or the closure it left behind
qpToString(q) ==
    IF q.strMemo.has THEN q.strMemo.s
    ELSE IF Truthy(q.value) THEN q.name \o <<"=">> \o q.value.s
    ELSE q.name

\* no instance: the constructor threw, or has not run
NoURL ==
    [live |-> FALSE, scheme |-> <<>>, hasIp |-> FALSE, ipAddress |-> NoAddr, host |-> <<>>,
     port |-> 0, path |-> <<>>, query |-> <<>>, fragment |-> NoStr, isDir |-> FALSE,
     strMemo |-> NoStr]

\* the constructor threw
Threw(m) == [ret |-> Err(m), inst |-> NoURL]

\* urlRest whose isDir looks at the trailing '/' only
urlRestSlashOnly(parts, u) ==
    [ret |-> Ok(<<>>),
     inst |-> [u EXCEPT !.live = TRUE,
                        !.isDir = Truthy(parts.p6) /\ "/" = parts.p6.s[Len(parts.p6.s)],
                        !.query = parseQuery(parts.p7),
                        !.fragment = IF Truthy(parts.p8) THEN SomeStr(parts.p8.s) ELSE NoStr]]

\* lines 126-140: isDir, the sorted query and the fragment complete the instance
urlRest(parts, u) ==
    [ret |-> Ok(<<>>),
     inst |-> [u EXCEPT !.live = TRUE,
                        !.isDir = 0 = Len(u.path) \/ "/" = parts.p6.s[Len(parts.p6.s)],
                        !.query = parseQuery(parts.p7),
                        !.fragment = IF Truthy(parts.p8) THEN SomeStr(parts.p8.s) ELSE NoStr]]

\* lines 109-118: the walk threw, or its stack is the path
urlWalked(parts, u, walk) ==
    IF ~walk.ok THEN Threw("Invalid path") ELSE urlRest(parts, [u EXCEPT !.path = walk.val])

\* lines 98-122
urlPath(parts, u) ==
    IF Truthy(parts.p6) THEN urlWalked(parts, u, pathWalk(split(parts.p6.s, "/"), 1, <<>>))
    ELSE urlRest(parts, [u EXCEPT !.path = <<>>])

\* urlPortRange with the upper limit one too high
urlPortRangeWide(parts, u, port) ==
    IF port < 0 \/ 65536 < port THEN Threw("Invalid port")
    ELSE urlPath(parts, [u EXCEPT !.port = port])

\* lines 90-92
urlPortRange(parts, u, port) ==
    IF port < 0 \/ 65535 < port THEN Threw("Invalid port")
    ELSE urlPath(parts, [u EXCEPT !.port = port])

\* urlPort whose default is 80 for either scheme
urlPortHttp(parts, u) ==
    IF Truthy(parts.p5) THEN urlPortRange(parts, u, parsePort(parts.p5.s))
    ELSE urlPath(parts, [u EXCEPT !.port = 80])

\* lines 87-95
urlPort(parts, u) ==
    IF Truthy(parts.p5) THEN urlPortRange(parts, u, parsePort(parts.p5.s))
    ELSE urlPath(parts, [u EXCEPT !.port = IF <<"h", "t", "t", "p">> = u.scheme THEN 80 ELSE 443])

\* lines 79 and 82: host is ipAddress.toString()
urlIpHost(parts, u, t) == urlPort(parts, [u EXCEPT !.hasIp = TRUE, !.ipAddress = t.inst, !.host = t.ret.val])

\* lines 78 and 81: new IPv6(...) may throw
urlIp(parts, u, ip) ==
    IF ~ip.ret.ok THEN Threw(ip.ret.err) ELSE urlIpHost(parts, u, instToString(ip.inst))

\* lines 77-85
urlHost(parts, u) ==
    IF Truthy(parts.p2) THEN urlIp(parts, u, newFromString(parts.p2.s))
    ELSE IF Truthy(parts.p3) THEN urlIp(parts, u, newFromString(parts.p3.s))
    ELSE urlPort(parts, [u EXCEPT !.host = toLowerCase(parts.p4.s)])

\* lines 69-75
urlOfParts(parts) ==
    IF ~parts.matched THEN Threw("Invalid URL")
    ELSE urlHost(parts, [NoURL EXCEPT !.scheme = IF Truthy(parts.p1) THEN toLowerCase(parts.p1.s)
                                                 ELSE <<"h", "t", "t", "p">>])

\* the HttpURL constructor (lines 46-141): the instance, or the error thrown
newHttpURL(str) == urlOfParts(regExExec(pctNormalize(str)))

\* line 157: the method is replaced by a closure over str; the calls of isIPv4 and
\* of each QueryParam's toString have left their closures too
urlMemo(u, ip, qs, str) ==
    [ret |-> str,
     inst |-> [u EXCEPT !.strMemo = SomeStr(str),
                        !.ipAddress = ip,
                        !.query = [i \in 1..Len(u.query) |-> [u.query[i] EXCEPT !.strMemo = SomeStr(qs[i])]]]]

\* lines 151-155
urlJoin(u, ip, theHost, qs) ==
    urlMemo(u, ip, qs,
            u.scheme \o <<":", "/", "/">> \o theHost \o <<":">> \o NumToString(u.port, 10)
            \o (IF Len(u.path) # 0 THEN <<"/">> \o join(u.path, <<"/">>) ELSE <<>>)
            \o (IF u.isDir THEN <<"/">> ELSE <<>>)
            \o (IF Len(u.query) # 0 THEN <<"?">> \o join(qs, <<"&">>) ELSE <<>>)
            \o OrEmpty(u.fragment))

\* this.query.join('&') calls toString on each QueryParam
urlQuery(u, ip, theHost) == urlJoin(u, ip, theHost, [i \in 1..Len(u.query) |-> qpToString(u.query[i])])

\* urlBracket that brackets every IP-literal host
urlBracketAlways(u, v4) == urlQuery(u, v4.inst, <<"[">> \o u.host \o <<"]">>)

\* lines 148-150: the host is bracketed when ipAddress.isIPv4() is false
urlBracket(u, v4) ==
    urlQuery(u, v4.inst, IF ~v4.ret THEN <<"[">> \o u.host \o <<"]">> ELSE u.host)

\* HttpURL.toString (lines 146-160), or the closure it left behind: the string, and
\* the instance as the call leaves it
urlToString(u) ==
    IF u.strMemo.has THEN [ret |-> u.strMemo.s, inst |-> u]
    ELSE IF u.hasIp THEN urlBracket(u, instIsIPv4(u.ipAddress))
    ELSE urlQuery(u, u.ipAddress, u.host)

(***************************************************************************)
(* The HttpURL operations as actions                                       *)
(***************************************************************************)

\* what an HttpURL operation returned: a string (str) or an error
URet(op, ok, str, err) == [op |-> op, ok |-> ok, str |-> str, err |-> err]

\* a constructor argument, written by component
UrlInput(lead, scheme, host, port, path, query, frag, trail) ==
    [lead |-> lead, scheme |-> scheme, host |-> host, port |-> port, path |-> path,
     query |-> query, frag |-> frag, trail |-> trail]

\* the string handed to the constructor
RawOf(i) == i.lead \o i.scheme \o i.host \o i.port \o i.path \o i.query \o i.frag \o i.trail

\* the longest path, in segments, and the longest query, in tokens, of the inputs
MaxSegs == 3

MaxParams == 3

\* the constructor arguments of the model
UrlInputs ==
    \* scheme, host and port in every combination
    {UrlInput(<<>>, s, h, p, <<>>, <<>>, <<>>, <<>>) :
        s \in { <<>>,
               <<"h", "t", "t", "p", ":", "/", "/">>,
               <<"h", "t", "t", "p", "s", ":", "/", "/">>,
               <<"H", "T", "T", "P", ":", "/", "/">>,
               <<"H", "t", "T", "p", "S", ":", "/", "/">>,
               <<"f", "t", "p", ":", "/", "/">> },
        h \in { <<"a">>,
               <<"F", "o", "o", ".", "o", "r", "g">>,
               <<"1", "0", ".", "0", ".", "0", ".", "1">>,
               <<"[", ":", ":", "f", "f", "f", "f", ":", "7", "f", "0", "0", ":", "1", "]">>,
               <<"[", "2", "0", "0", "1", ":", "D", "B", "8", ":", ":", "1", "]">>,
               <<"[", "1", ":", "2", ":", "3", ":", "4", ":", "5", ":", "6", ":", "7", ":", "8", "]">>,
               <<"1", ".", "2", ".", "3", ".", "9", "9", "9">>,
               <<"[", ":", ":", "1", ":", ":", "2", "]">>,
               <<"f", "o", "%", "6", "F", ".", "c", "o", "m">>,
               <<"-", "b", "a", "d">> },
        p \in { <<>>,
               <<":", "8", "0">>,
               <<":", "0">>,
               <<":", "-", "0">>,
               <<":", "4", "4", "3">>,
               <<":", "6", "5", "5", "3", "5">>,
               <<":", "6", "5", "5", "3", "6">>,
               <<":", "-", "1">>,
               <<":", "1", "0", "0", "0", "0", "0">>,
               <<":", "1", "2", "3", "4", "5", "6", "7", "8", "9", "0", "1">>,
               <<":", "8", "o">> } }
    \cup
    \* a bad host, a bad port and a climbing path together
    {UrlInput(<<>>, <<>>, h, p, pa, <<>>, <<>>, <<>>) :
        h \in { <<"a">>,
               <<"1", ".", "2", ".", "3", ".", "9", "9", "9">>,
               <<"[", ":", ":", "f", "f", "f", "f", ":", "a", "0", "0", ":", "1", "]">> },
        p \in { <<>>,
               <<":", "8", "0">>,
               <<":", "6", "5", "5", "3", "6">>,
               <<":", "-", "1">> },
        pa \in { <<"/">>,
               <<"/", "a", "/", "b", "/">>,
               <<"/", "a", "/", ".", ".", "/", ".", ".">>,
               <<"/", "%", "2", "e", "%", "2", "E">> }}
    \cup
    \* every path of at most MaxSegs segments
    {UrlInput(<<>>, <<>>, <<"a">>, <<>>, <<"/">> \o join(segs, <<"/">>), <<>>, <<>>, <<>>) :
        segs \in UNION {[1..n -> { <<>>,
                                   <<".">>,
                                   <<".", ".">>,
                                   <<"a">>,
                                   <<"B">>,
                                   <<"%", "2", "E", "%", "2", "e">>,
                                   <<"%", "2", "e">>,
                                   <<"C", "R", "%", "9", "a">> }] : n \in 1..MaxSegs}}
    \cup
    \* every query of at most MaxParams tokens, with each separator, and a fragment
    {UrlInput(<<>>, <<>>, <<"a">>, <<>>, <<>>, <<"?">> \o join(toks, <<sep>>), f, <<>>) :
        toks \in UNION {[1..n -> { <<>>,
                                   <<"a">>,
                                   <<"b", "=", "c">>,
                                   <<"a", "=">>,
                                   <<"C", "=", "%", "6", "4">>,
                                   <<"a", "=", "b", "=", "c">> }] : n \in 0..MaxParams},
        sep \in {"&", ";"},
        f \in { <<>>, <<"#", "%", "7", "e", "%", "5", "b">> } }
    \cup
    \* the README's example, with and without whitespace around it, and whitespace inside
    { UrlInput(<<>>, <<>>, <<"F", "o", "o", ".", "o", "r", "g">>, <<>>, <<"/", "a", "/", ".", "/", "c", "/", ".", ".", "/", "B", "/", "/", "%", "6", "4", "/", "C", "R", "%", "9", "a">>, <<"?", "b", "=", "c", ";", "a", "=", ";", "C", "=", "%", "6", "4">>, <<"#">>, <<>>),
      UrlInput(<<" ">>, <<"h", "t", "t", "p", "s", ":", "/", "/">>, <<"[", "1", ":", "0", ":", "0", ":", "4", ":", ":", "8", "]">>, <<":", "8", "4", "4", "3">>, <<"/", "a", "/">>, <<"?", "b", "&", "a", "=", "1", ";", "a">>, <<"#", "t", "o", "p">>, <<" ", "\t">>),
      UrlInput(<<>>, <<>>, <<"a">>, <<>>, <<"/", "b", " ", "c">>, <<>>, <<>>, <<>>),
      UrlInput(<<>>, <<"H", "T", "T", "P", "S", ":", "/", "/">>, <<"[", "2", "0", "0", "1", ":", "D", "B", "8", ":", ":", "1", "]">>, <<>>, <<"/", "a", "/", "b">>, <<"?", "x", "=", "1", ";", "w">>, <<"#", "f">>, <<>>),
      UrlInput(<<>>, <<>>, <<"a">>, <<>>, <<"/", "b", "%", "2">>, <<>>, <<>>, <<>>),
      UrlInput(<<>>, <<>>, <<"a">>, <<>>, <<"/", "x", "%", "2", "5", "4", "1", "%", "3", "a", "%", "7", "E", "/", "%", "2", "5", "%", "3", "2", "%", "3", "5">>, <<"?", "q", "=", "%", "2", "5", "3", "5", "&", "%", "5", "b", "=", "%", "5", "D">>, <<"#", "%", "2", "e", "%", "2", "F">>, <<>>),
      UrlInput(<<>>, <<>>, <<"a">>, <<>>, <<"/", "p">>, <<>>, <<"#", "x", ";", "y">>, <<>>),
      UrlInput(<<>>, <<>>, <<"a">>, <<>>, <<"/", "p", "/">>, <<"?", "b", "=", "1">>, <<"#", "&", "a", "=", "2">>, <<>>),
      UrlInput(<<>>, <<>>, <<"a">>, <<>>, <<"/", "p", "/", "q">>, <<>>, <<"#", "/", ".", ".", "/", "r">>, <<>>),
      UrlInput(<<>>, <<>>, <<"a">>, <<>>, <<"/", "b", "%", "2", "%", "4", "5">>, <<"?", "%", "2", "%", "3", "5", "=", "%", "%", "4", "1">>, <<>>, <<>>) }

\* the instance a constructor call made, or none and the error
Constructed(n) ==
    /\ url' = n.inst
    /\ uret' = URet("new", n.ret.ok, <<>>, n.ret.err)

\* new HttpURL(RawOf(input))
Construct ==
    /\ uret.op = "init"
    /\ Constructed(newHttpURL(RawOf(input)))
    /\ normUrl' = pctNormalize(RawOf(input))
    /\ UNCHANGED <<input, addrVars>>

\* the instance as toString leaves it, and the string
Rendered(r) ==
    /\ url' = r.inst
    /\ uret' = URet("toString", TRUE, r.ret, "")

\* url.toString()
UrlToString ==
    /\ url.live
    /\ Rendered(urlToString(url))
    /\ UNCHANGED <<input, normUrl, addrVars>>

\* new HttpURL(url.toString()).toString(), on the string the last toString returned:
\* the string of the second instance, or the error of its constructor
Reconstruct ==
    /\ uret.op = "toString"
    /\ LET n == newHttpURL(uret.str)
       IN  uret' = IF n.ret.ok THEN URet("reconstruct", TRUE, urlToString(n.inst).ret, "")
                   ELSE URet("reconstruct", FALSE, <<>>, n.ret.err)
    /\ UNCHANGED <<input, normUrl, url, addrVars>>

(***************************************************************************)
(* Specifications                                                          *)
(***************************************************************************)

InitAddr ==
    /\ addr = NoAddr
    /\ aret = ARet("init", FALSE, TRUE, <<>>, FALSE, "", 0)
    /\ origin = NoOrigin
    /\ args = <<>>
    /\ flagsUsed = {}

InitUrl ==
    /\ normUrl = <<>>
    /\ url = NoURL
    /\ uret = URet("init", TRUE, <<>>, "")

\* the IPv6 class alone: no HttpURL is constructed
SpecAddrInit == InitAddr /\ InitUrl /\ input = UrlInput(<<>>, <<>>, <<"a">>, <<>>, <<>>, <<>>, <<>>, <<>>)

NextAddr ==
    \/ NewFromBigInt
    \/ NewFromString
    \/ NewFromAddr
    \/ NewFromRendered
    \/ IsIPv4
    \/ StaticIsIPv4
    \/ ToIPv6String
    \/ ToIPv4String
    \/ AddrToString
    \/ Compare
    \/ Equals

SpecAddr == SpecAddrInit /\ [][NextAddr]_vars

\* one HttpURL constructor call on an argument drawn at the start
Init == InitAddr /\ InitUrl /\ input \in UrlInputs

\* the HttpURL class
NextUrl ==
    \/ Construct
    \/ UrlToString
    \/ Reconstruct

SpecUrl == Init /\ [][NextUrl]_vars

\* the calls on one IPv6 instance made from a string, next to one HttpURL
InitMemo == InitAddr /\ InitUrl /\ input \in {i \in UrlInputs : i.frag \in {<<"#", "t", "o", "p">>, <<"#", "f">>}}

NextMemo ==
    \/ NewFromString
    \/ IsIPv4
    \/ ToIPv6String
    \/ ToIPv4String
    \/ AddrToString
    \/ Construct
    \/ UrlToString

SpecMemo == InitMemo /\ [][NextMemo]_vars

Next == NextAddr \/ NextUrl

Spec == Init /\ [][Next]_vars

(***************************************************************************)
(* Claims about the IPv6 class, checked under SpecAddr                     *)
(***************************************************************************)

\* the last call was toIPv6String and it took the hex-group branch
HexBranch == aret.op = "toIPv6String" /\ aret.ok /\ ~(isIPv4(addr.value) /\ aret.dotDec)

\* C1: parsing the text returned by toIPv6String, with dotDecimal true or false,
\* succeeds and yields an Address of the same value.
C1_RoundTrip ==
    (aret.op = "new" /\ origin.has) => (aret.ok /\ addr.live /\ addr.value = origin.value)

\* a dot-decimal rendering of an IPv4-mapped value was parsed back
C1_Witness ==
    /\ aret.op = "new"
    /\ origin.has
    /\ aret.ok
    /\ \E i \in 1..Len(origin.text) : origin.text[i] = "."
    /\ addr.value = origin.value

\* the groups s..s+n-1 of g are a maximal run of zero groups
ZeroRun(g, s, n) ==
    /\ n >= 1
    /\ s + n - 1 <= 8
    /\ \A i \in s..(s + n - 1) : g[i] = 0
    /\ (s = 1 \/ g[s - 1] # 0)
    /\ (s + n - 1 = 8 \/ g[s + n] # 0)

\* the runs of at least two zero groups, as <<start, length>>
LongRuns(g) == {r \in Groups \X (2..8) : ZeroRun(g, r[1], r[2])}

\* the longest of them, the leftmost among the longest
ElidedRun(g) ==
    CHOOSE r \in LongRuns(g) :
        \A q \in LongRuns(g) : q[2] < r[2] \/ (q[2] = r[2] /\ q[1] >= r[1])

\* the values of the groups written in a text of ':'-separated hex groups
WrittenGroups(text) ==
    IF text = <<>> THEN <<>>
    ELSE [i \in 1..Len(split(text, ":")) |->
             IF HEXREGEX(split(text, ":")[i]) THEN ParseDigits(split(text, ":")[i], 16, 0) ELSE -1]

\* the place of the first "::" in a text, 0 when there is none
ElisionAt(text) ==
    IF \E i \in 1..(Len(text) - 1) : text[i] = ":" /\ text[i + 1] = ":"
    THEN CHOOSE i \in 1..(Len(text) - 1) :
             /\ text[i] = ":" /\ text[i + 1] = ":"
             /\ \A j \in 1..(i - 1) : ~(text[j] = ":" /\ text[j + 1] = ":")
    ELSE 0

\* C2: in the hex-group branch the '::' replaces exactly one run of zero groups,
\* the longest run of length >= 2 and the leftmost of the longest; without such a
\* run the text has no '::' and all eight groups; the value 0 renders as '::'.
C2_ZeroRun ==
    HexBranch =>
        LET g  == addr.value
            at == ElisionAt(aret.str)
        IN  IF LongRuns(g) = {}
            THEN at = 0 /\ WrittenGroups(aret.str) = g
            ELSE /\ at > 0
                 /\ matchCount(<<":", ":">>, aret.str) = 1
                 /\ WrittenGroups(Take(aret.str, at - 1)) = SubSeq(g, 1, ElidedRun(g)[1] - 1)
                 /\ WrittenGroups(Drop(aret.str, at + 1))
                        = SubSeq(g, ElidedRun(g)[1] + ElidedRun(g)[2], 8)
                 /\ (g = <<0, 0, 0, 0, 0, 0, 0, 0>> => aret.str = <<":", ":">>)

\* two longest runs tie, and the text was rendered
C2_Witness ==
    /\ HexBranch
    /\ \E r \in LongRuns(addr.value) :
          /\ r # ElidedRun(addr.value)
          /\ r[2] = ElidedRun(addr.value)[2]

\* C3: in the hex-group branch every group that is printed is the lowercase hex
\* rendering of its value without leading zeros or padding, with and without an
\* elided run.
C3_NoPadding ==
    HexBranch =>
        \A i \in 1..Len(split(aret.str, ":")) :
            LET part == split(aret.str, ":")[i]
            IN  part # <<>> => part = NumToString(ParseDigits(part, 16, 0), 16)

\* the top 80 bits of the value are zero and the next 16 are ones
Mapped(v) == (\A i \in 1..5 : v[i] = 0) /\ v[6] = 65535

\* the four low bytes of the value, most significant first
LowBytes(v) == <<v[7] \div 256, v[7] % 256, v[8] \div 256, v[8] % 256>>

\* the text is 'd.d.d.d', each d the decimal numeral of a byte without leading zeros
IsDottedOf(text, bytes) ==
    /\ Len(split(text, ".")) = 4
    /\ \A i \in 1..4 :
          LET d == split(text, ".")[i]
          IN  /\ DECREGEX(d)
              /\ (Len(d) = 1 \/ d[1] # "0")
              /\ ParseDigits(d, 10, 0) = bytes[i]

\* the bigint is negative or has more than 128 bits
OutOfRange(b) == b.neg \/ b.hi > 0

\* C13: every Address that exists, made from an integer, a string or another
\* Address, has a value of eight groups in [0, 0xFFFF], i.e. in [0, 2^128 - 1];
\* construction from a negative integer or from one of 2^128 or more fails with a
\* range error and makes no instance.
C13_Range ==
    /\ addr.live => (Len(addr.value) = 8 /\ \A i \in 1..8 : addr.value[i] \in 0..65535)
    /\ (aret.op = "new" /\ args[1].kind = "bigint") =>
          IF OutOfRange(args[1].big)
          THEN /\ ~aret.ok
               /\ ~addr.live
               /\ aret.err = (IF args[1].big.neg THEN "value is negative"
                              ELSE "value has more than 128 bits")
          ELSE aret.ok /\ addr.live /\ addr.value = args[1].big.lo
    /\ (aret.op = "new" /\ args[1].kind = "IPv6") =>
          (aret.ok /\ addr.live /\ addr.value = args[1].big.lo)

\* the integer 2^128 was refused
C13_Witness ==
    /\ aret.op = "new"
    /\ args[1].kind = "bigint"
    /\ args[1].big.hi = 1
    /\ ~aret.ok
    /\ ~addr.live

\* C14: isIPv4 is true exactly when the top 80 bits of the value are zero and the
\* next 16 bits are ones, i.e. 0xFFFF00000000 <= v <= 0xFFFFFFFFFFFF; the instance
\* method and the static method give the same answer.
C14_Mapped ==
    /\ aret.op \in {"isIPv4", "staticIsIPv4"} => (aret.ok /\ aret.flag = Mapped(addr.value))
    /\ addr.live =>
          (Mapped(addr.value) <=>
              /\ ~bigLess(BigOf(addr.value), BigOf(<<0, 0, 0, 0, 0, 65535, 0, 0>>))
              /\ ~bigLess(BigOf(<<0, 0, 0, 0, 0, 65535, 65535, 65535>>), BigOf(addr.value)))

\* the static method answered true on an instance whose own method had answered
C14_Witness ==
    /\ aret.op = "staticIsIPv4"
    /\ aret.flag
    /\ addr.isIPv4Memo = "true"

\* sub occurs in s
Contains(s, sub) == \E i \in 0..(Len(s) - Len(sub)) : SubSeq(s, i + 1, i + Len(sub)) = sub

C16_DotDecimal ==
    aret.op = "toIPv6String" =>
        /\ aret.ok
        /\ aret.str = toIPv6String(addr.value, aret.dotDec)
        /\ IF Mapped(addr.value)
           THEN IF aret.dotDec
                THEN /\ StartsWith(aret.str, <<":", ":", "f", "f", "f", "f", ":">>)
                     /\ IsDottedOf(Drop(aret.str, 7), LowBytes(addr.value))
                ELSE aret.str = <<":", ":", "f", "f", "f", "f", ":">> \o NumToString(addr.value[7], 16)
                                    \o <<":">> \o NumToString(addr.value[8], 16)
           ELSE aret.str = toIPv6String(addr.value, ~aret.dotDec)

\* the hex-group form was asked of an IPv4-mapped Address after the dotted form
C16_Witness ==
    /\ aret.op = "toIPv6String"
    /\ Mapped(addr.value)
    /\ ~aret.dotDec
    /\ TRUE \in flagsUsed

\* an Address, an integer in range or a string that can be parsed
Valid(a) ==
    \/ a.kind = "IPv6"
    \/ (a.kind = "bigint" /\ ~OutOfRange(a.big))
    \/ (a.kind = "string" /\ fromString(a.text).ok)

\* the eight groups of the value of a valid operand
ValueOf(a) == IF a.kind = "string" THEN fromString(a.text).val ELSE a.big.lo

\* -1, 0 or 1 as the unsigned 128-bit value v is below, equal to or above w
Sign(v, w) ==
    IF v = w THEN 0
    ELSE LET d == CHOOSE i \in 1..8 : v[i] # w[i] /\ \A j \in 1..(i - 1) : v[j] = w[j]
         IN  IF v[d] < w[d] THEN -1 ELSE 1

\* C17: for valid operands compare(a, b) is negative, zero or positive as the
\* value of a is below, equal to or above the value of b as unsigned 128-bit
\* integers, whatever text was given; compare(a, b) = -compare(b, a) and compare
\* is transitive.
C17_Order ==
    (aret.op = "compare" /\ Valid(args[1]) /\ Valid(args[2])) =>
        /\ aret.ok
        /\ aret.num = Sign(ValueOf(args[1]), ValueOf(args[2]))
        /\ compare(args[2], args[1]).ok
        /\ compare(args[2], args[1]).val = 0 - aret.num
        /\ \A c \in {o \in Operands : Valid(o)} :
              (aret.num <= 0 /\ compare(args[2], c).val <= 0) => compare(args[1], c).val <= 0

\* two strings were compared whose order as text is the reverse of their order as
\* values
C17_Witness ==
    /\ aret.op = "compare"
    /\ args[1].kind = "string"
    /\ args[1].text = <<"1", "0", ":", ":">>
    /\ args[2].kind = "string"
    /\ args[2].text = <<"9", ":", ":">>
    /\ aret.num = 1

\* a string that cannot be parsed
Unparseable(a) == a.kind = "string" /\ ~fromString(a.text).ok

\* C18: equals always answers: true for two nulls, false for exactly one null, for
\* two other operands true exactly when compare returns 0, and false when an
\* operand is a string that cannot be parsed, where compare raises the parse
\* error.
C18_Equals ==
    aret.op = "equals" =>
        /\ aret.ok
        /\ (args[1].kind = "null" /\ args[2].kind = "null") => aret.flag
        /\ ((args[1].kind = "null") # (args[2].kind = "null")) => ~aret.flag
        /\ (args[1].kind # "null" /\ args[2].kind # "null") =>
              (aret.flag <=> (compare(args[1], args[2]).ok /\ compare(args[1], args[2]).val = 0))
        /\ (Valid(args[1]) /\ Valid(args[2])) => (aret.flag <=> ValueOf(args[1]) = ValueOf(args[2]))
        /\ ((Unparseable(args[1]) /\ args[2].kind # "null") \/ (Unparseable(args[2]) /\ args[1].kind # "null")) =>
              /\ ~aret.flag
              /\ ~compare(args[1], args[2]).ok
              /\ compare(args[1], args[2]).err
                     = (IF Unparseable(args[1]) THEN fromString(args[1].text).err
                        ELSE fromString(args[2].text).err)

\* equals answered false on a string that cannot be parsed
C18_Witness ==
    /\ aret.op = "equals"
    /\ Unparseable(args[2])
    /\ Valid(args[1])
    /\ ~aret.flag

\* the number written by at most three decimal digits
Numeral(t) ==
    IF Len(t) = 0 THEN 0
    ELSE IF Len(t) = 1 THEN DigitVal(t[1])
    ELSE IF Len(t) = 2 THEN 10 * DigitVal(t[1]) + DigitVal(t[2])
    ELSE 100 * DigitVal(t[1]) + 10 * DigitVal(t[2]) + DigitVal(t[3])

\* t without its leading zeros
StripZeros(t) == Drop(t, Cardinality({i \in 1..Len(t) : \A j \in 1..i : t[j] = "0"}))

\* t is made of decimal digits only and writes a number in [0, 255]
OctetToken(t) ==
    /\ t # <<>>
    /\ \A i \in 1..Len(t) : IsDigit(t[i])
    /\ Len(StripZeros(t)) <= 3
    /\ Numeral(StripZeros(t)) <= 255

\* the part of s after its last ':', the whole of s when it has none
LastPart(s) == Drop(s, lastIndexOf(s, ":") + 1)

\* d is 'a.b.c.d' with four octets written without leading zeros
PlainQuad(d) ==
    /\ Len(split(d, ".")) = 4
    /\ \A i \in 1..4 : OctetToken(split(d, ".")[i])
    /\ \A i \in 1..4 : Len(split(d, ".")[i]) = 1 \/ split(d, ".")[i][1] # "0"

\* the octets that the plain quad d writes
OctetsOf(d) == [i \in 1..4 |-> Numeral(split(d, ".")[i])]

\* the string is 'a.b.c.d' or '::ffff:a.b.c.d'
IPv4Text(s) ==
    /\ PlainQuad(LastPart(s))
    /\ Take(s, Len(s) - Len(LastPart(s))) \in {<<>>, <<":", ":", "f", "f", "f", "f", ":">>}

\* the hex form '::ffff:XXXX:YYYY' of the 32 bits of the octets o
HexFormOf(o) ==
    <<":", ":", "f", "f", "f", "f", ":">> \o NumToString(o[1] * 256 + o[2], 16) \o <<":">> \o NumToString(o[3] * 256 + o[4], 16)

\* C19: 'a.b.c.d' and '::ffff:a.b.c.d' with octets in [0, 255] parse to the value
\* 0xFFFF * 2^32 + a * 2^24 + b * 2^16 + c * 2^8 + d, which is also the value of the
\* hex form '::ffff:XXXX:YYYY' of the same 32 bits; the Address is IPv4-mapped and
\* its toIPv4String is 'a.b.c.d'.
C19_IPv4Value ==
    (args # <<>> /\ args[1].kind = "string" /\ IPv4Text(args[1].text)) =>
        LET o == OctetsOf(LastPart(args[1].text))
        IN  /\ aret.op = "new" => aret.ok
            /\ aret.op \notin {"init", "compare", "equals"} =>
                  /\ addr.live
                  /\ addr.value = <<0, 0, 0, 0, 0, 65535, o[1] * 256 + o[2], o[3] * 256 + o[4]>>
                  /\ fromString(HexFormOf(o)) = Ok(addr.value)
                  /\ Mapped(addr.value)
            /\ aret.op \in {"isIPv4", "staticIsIPv4"} => aret.flag
            /\ aret.op = "toIPv4String" => (aret.ok /\ aret.str = LastPart(args[1].text))

\* toIPv4String gave back the bare dotted string the Address was made from
C19_Witness ==
    /\ aret.op = "toIPv4String"
    /\ args[1].kind = "string"
    /\ args[1].text = <<"9", ".", "1", "0", ".", "9", "9", ".", "1", "0", "0">>
    /\ aret.str = <<"9", ".", "1", "0", ".", "9", "9", ".", "1", "0", "0">>
    /\ addr.value = <<0, 0, 0, 0, 0, 65535, 2314, 25444>>

\* the string, after the removal of white space, ends in a part with a '.' in it
EndsDotted(s) ==
    /\ 0 < lastIndexOf(s, ".")
    /\ lastIndexOf(s, ":") < lastIndexOf(s, ".")

\* the dotted part has exactly four tokens, each of decimal digits and in [0, 255]
QuadValid(d) == Len(split(d, ".")) = 4 /\ \A i \in 1..4 : OctetToken(split(d, ".")[i])

\* a string without ':' and without a '.' after its first character
BareNoDot(s) == indexOf(s, ":") < 0 /\ lastIndexOf(s, ".") <= 0

\* the statement about the quad for the string s that was given to the constructor
QuadChecked(s) ==
    /\ (EndsDotted(s) /\ ~QuadValid(LastPart(s))) =>
          (~aret.ok /\ ~addr.live /\ aret.err = "Invalid IP v 4 address")
    /\ BareNoDot(s) => (~aret.ok /\ ~addr.live /\ aret.err = "Invalid address")

\* C20 as stated: whenever the string ends in a dotted part that is not four
\* tokens of decimal digits in [0, 255] the parse fails with 'Invalid IP v 4
\* address', and a bare string without '.' after its first character fails with
\* 'Invalid address'.
C20_Original ==
    (aret.op = "new" /\ args[1].kind = "string") => QuadChecked(replaceSpace(args[1].text))

\* C20: the same for a string with at most one '::'.
C20_Quad ==
    (aret.op = "new" /\ args[1].kind = "string"
        /\ matchCount(<<":", ":">>, replaceSpace(args[1].text)) <= 1) =>
            QuadChecked(replaceSpace(args[1].text))

\* a quad with an octet above 255 after the mapped prefix was refused
C20_Witness ==
    /\ aret.op = "new"
    /\ args[1].kind = "string"
    /\ args[1].text = <<":", ":", "f", "f", "f", "f", ":", "3", "0", "0", ".", "1", ".", "1", ".", "1">>
    /\ aret.err = "Invalid IP v 4 address"

\* the number of ':' that stand directly before position i of s
ColonsBefore(s, i) ==
    Cardinality({j \in 1..(i - 1) : \A k \in j..(i - 1) : s[k] = ":"})

\* the number of '::' tokens of s, read from left to right: a run of n colons holds
\* n \div 2 of them
ElisionCount(s) ==
    Cardinality({i \in 1..(Len(s) - 1) :
                    s[i] = ":" /\ s[i + 1] = ":" /\ ColonsBefore(s, i) % 2 = 0})

\* the string given to the constructor, after the removal of white space
GivenText == replaceSpace(args[1].text)

\* the constructor was called on a string
NewOfText == aret.op = "new" /\ args[1].kind = "string"

\* C21: a string with more than one '::' is rejected with the 'too many "::"'
\* error whatever else it contains, and a string with one '::' or none is never
\* rejected with that error.
C21_TooMany ==
    NewOfText =>
        IF ElisionCount(GivenText) > 1
        THEN ~aret.ok /\ ~addr.live /\ aret.err = "too many \"::\" in the IPv6 string"
        ELSE aret.err # "too many \"::\" in the IPv6 string"

\* a string with two '::' and a malformed quad was rejected for its '::'
C21_Witness ==
    /\ NewOfText
    /\ args[1].text = <<"1", ":", ":", "2", ":", ":", "1", ".", "2", ".", "3", ".", "4", "0", "0">>
    /\ aret.err = "too many \"::\" in the IPv6 string"

\* the ':'-separated parts of s that are written as hex groups: the parts that are
\* not empty, without the dotted quad at the end
HexParts(s) ==
    SelectSeq(IF EndsDotted(s) THEN Take(split(s, ":"), Len(split(s, ":")) - 1) ELSE split(s, ":"),
              LAMBDA p : p # <<>>)

\* the number of groups written in s, a dotted quad at the end counting as two
WrittenCount(s) == Len(HexParts(s)) + (IF EndsDotted(s) THEN 2 ELSE 0)

\* C23 as stated implies: a string with a group that is not 1 to 4 hexadecimal
\* digits, such as '00001', is not accepted.
C23_GroupShape ==
    (NewOfText /\ \E i \in 1..Len(HexParts(GivenText)) :
                      \/ Len(HexParts(GivenText)[i]) > 4
                      \/ \E k \in 1..Len(HexParts(GivenText)[i]) : ~IsHexDigit(HexParts(GivenText)[i][k]))
        => ~aret.ok

\* C24 as stated: a string with ':' and without '::' is accepted only if exactly 8
\* groups are written in it, a single ':' at its start or end adding none.
C24_ExactCount ==
    (NewOfText /\ aret.ok /\ 0 <= indexOf(GivenText, ":") /\ ElisionCount(GivenText) = 0)
        => WrittenCount(GivenText) = 8

\* C25 as stated implies: a string with one '::' and 8 written groups is rejected.
C25_Elision ==
    (NewOfText /\ ElisionCount(GivenText) = 1 /\ WrittenCount(GivenText) = 8) => ~aret.ok

\* s without the white space at its start and at its end
Trimmed(s) ==
    LET inner == {i \in 1..Len(s) : ~IsSpace(s[i])}
    IN  IF inner = {} THEN <<>>
        ELSE SubSeq(s, CHOOSE i \in inner : \A j \in inner : i <= j,
                       CHOOSE i \in inner : \A j \in inner : j <= i)

\* C26 as stated: a string made of an accepted string and white space before it,
\* after it or both parses to the value of the accepted string.
C26_Whitespace ==
    (NewOfText /\ fromString(Trimmed(args[1].text)).ok)
        => (aret.ok /\ addr.value = fromString(Trimmed(args[1].text)).val)

\* the string with the mapped prefix that a string without ':' gets
Prefixed(s) == IF indexOf(s, ":") < 0 THEN <<":", ":", "F", "F", "F", "F", ":">> \o s ELSE s

\* the values of the groups written in s, from left to right
WrittenValues(s) ==
    [i \in 1..Len(HexParts(s)) |-> ParseDigits(HexParts(s)[i], 16, 0)]
    \o (IF EndsDotted(s)
        THEN LET q == [i \in 1..4 |-> ParseDigits(split(LastPart(s), ".")[i], 10, 0)]
             IN  <<q[1] * 256 + q[2], q[3] * 256 + q[4]>>
        ELSE <<>>)

\* C27 as stated: the value of an accepted string is made of all the groups written
\* in it, in their order, most significant first, with zero groups at one place
\* for the elision; no written group is missing from the value.
C27_Assembly ==
    (NewOfText /\ aret.ok) =>
        LET w == WrittenValues(Prefixed(GivenText))
        IN  \E i \in 0..Len(w) :
                addr.value = SubSeq(w, 1, i) \o [k \in 1..(8 - Len(w)) |-> 0] \o SubSeq(w, i + 1, Len(w))

\* one of the operands of the last call is an integer out of range
IntOutOfRange == \E i \in 1..Len(args) : args[i].kind = "bigint" /\ OutOfRange(args[i].big)

\* C30 as stated, for the constructor, static compare and equals: a call with an
\* integer that is negative or 2^128 or more fails, and equals answers false.
C30_EveryEntry ==
    IntOutOfRange =>
        /\ aret.op \in {"new", "compare"} => ~aret.ok
        /\ aret.op = "equals" => ~aret.flag

(***************************************************************************)
(* Claims about the HttpURL class, checked under SpecUrl                   *)
(***************************************************************************)

\* a %XX triplet starts at place i of s
TripletAt(s, i) ==
    /\ i >= 1
    /\ i + 2 <= Len(s)
    /\ s[i] = "%"
    /\ IsHexDigit(s[i + 1])
    /\ IsHexDigit(s[i + 2])

\* the byte a triplet at place i encodes
ByteAt(s, i) == 16 * DigitVal(s[i + 1]) + DigitVal(s[i + 2])

\* A-Z a-z 0-9 - . _ ~
UnreservedChars == {c \in Chars : IsUpper(c) \/ IsLower(c) \/ IsDigit(c) \/ c \in {"-", ".", "_", "~"}}

\* the byte is the code of an unreserved character
UnreservedByte(b) == \E c \in UnreservedChars : Code(c) = b

\* what place i of s contributes to the normalized string
NormPiece(s, i) ==
    IF TripletAt(s, i)
    THEN IF UnreservedByte(ByteAt(s, i))
         THEN <<CHOOSE c \in UnreservedChars : Code(c) = ByteAt(s, i)>>
         ELSE <<"%", UpperChar(s[i + 1]), UpperChar(s[i + 2])>>
    ELSE IF TripletAt(s, i - 1) \/ TripletAt(s, i - 2) THEN <<>>
    ELSE <<s[i]>>

RECURSIVE NormFrom(_, _)
NormFrom(s, i) == IF i > Len(s) THEN <<>> ELSE NormPiece(s, i) \o NormFrom(s, i + 1)

\* the normalization, triplet by triplet
Normalized(s) == NormFrom(s, 1)

\* the '/'-separated segments of the path text that follows the first '/'
RawSegments == IF input.path = <<>> THEN <<>> ELSE split(Tail(Normalized(input.path)), "/")

\* the groups of the input, its host and its port, as the grammar takes them
InputParts == regExExec(pctNormalize(RawOf(input)))

InputHostValid ==
    /\ (Truthy(InputParts.p2) => fromString(InputParts.p2.s).ok)
    /\ (Truthy(InputParts.p3) => fromString(InputParts.p3.s).ok)

\* the port component is ':' and an optionally signed decimal numeral
PortPresent ==
    /\ Len(input.port) >= 2
    /\ input.port[1] = ":"
    /\ DECREGEX(IF input.port[2] = "-" THEN Drop(input.port, 2) ELSE Tail(input.port))

\* the decimal value of the port component
PortValue == parsePort(Tail(input.port))

InputPortValid == PortPresent => (PortValue >= 0 /\ PortValue <= 65535)

\* +1 for a segment that is kept, -1 for '..', 0 for an empty segment and for '.'
Step(seg) ==
    IF seg = <<>> \/ seg = <<".">> THEN 0
    ELSE IF seg = <<".", ".">> THEN -1
    ELSE 1

RECURSIVE Depth(_, _)
\* the segments kept, less the '..' seen, among the first i segments
Depth(segs, i) == IF i = 0 THEN 0 ELSE Depth(segs, i - 1) + Step(segs[i])

\* some '..' is reached while nothing is kept
Climbs(segs) == \E i \in 1..Len(segs) : Depth(segs, i) < 0

\* C4: for an input that matches the grammar with a valid host and port, the
\* construction fails with 'Invalid path' exactly when a '..' segment is reached
\* while the stack of kept segments is empty, and then no URL object results.
C4_Climb ==
    (uret.op = "new" /\ InputParts.matched /\ InputHostValid /\ InputPortValid) =>
        /\ (~uret.ok /\ uret.err = "Invalid path") <=> Climbs(RawSegments)
        /\ Climbs(RawSegments) => ~url.live
        /\ ~Climbs(RawSegments) => url.live

\* a path that first keeps a segment and then climbs above the root was rejected
C4_Witness ==
    /\ uret.op = "new"
    /\ uret.err = "Invalid path"
    /\ Len(RawSegments) >= 3
    /\ Step(RawSegments[1]) = 1

RECURSIVE ResolveBack(_, _, _, _)
\* the segments that survive, found from the right: a '..' cancels the nearest
\* kept segment on its left
ResolveBack(segs, i, skip, kept) ==
    IF i = 0 THEN kept
    ELSE IF Step(segs[i]) = 0 THEN ResolveBack(segs, i - 1, skip, kept)
    ELSE IF Step(segs[i]) = -1 THEN ResolveBack(segs, i - 1, skip + 1, kept)
    ELSE IF skip > 0 THEN ResolveBack(segs, i - 1, skip - 1, kept)
    ELSE ResolveBack(segs, i - 1, 0, <<segs[i]>> \o kept)

\* C5: the path of a constructed HttpURL is the result of the stack walk over the
\* raw segments, and no segment of it is empty, '.' or '..', also when the dots
\* arrived percent-encoded.
C5_Resolved ==
    url.live =>
        /\ url.path = ResolveBack(RawSegments, Len(RawSegments), 0, <<>>)
        /\ \A i \in 1..Len(url.path) :
              /\ url.path[i] \notin {<<>>, <<".">>, <<".", ".">>}
              /\ \A j \in 1..Len(url.path[i]) : url.path[i][j] # "/"

\* a percent-encoded '..' cancelled a segment and another segment was kept
C5_Witness ==
    /\ url.live
    /\ \E i \in 2..Len(split(input.path, "/")) : split(input.path, "/")[i] = <<"%", "2", "E", "%", "2", "e">>
    /\ Len(url.path) >= 1

RECURSIVE Flatten(_)
Flatten(ss) == IF ss = <<>> THEN <<>> ELSE ss[1] \o Flatten(Tail(ss))

RECURSIVE NonEmpty(_)
NonEmpty(ss) ==
    IF ss = <<>> THEN <<>>
    ELSE IF ss[1] = <<>> THEN NonEmpty(Tail(ss))
    ELSE <<ss[1]>> \o NonEmpty(Tail(ss))

\* the non-empty tokens of the query text, split on '&' and then on ';'
RawTokens ==
    IF input.query = <<>> THEN <<>>
    ELSE NonEmpty(Flatten([i \in 1..Len(split(Tail(Normalized(input.query)), "&")) |->
                              split(split(Tail(Normalized(input.query)), "&")[i], ";")]))

\* the name and the value-or-empty-string of a token, split at its first '='
TokenKey(tok) ==
    IF \E i \in 1..Len(tok) : tok[i] = "="
    THEN LET e == CHOOSE i \in 1..Len(tok) : tok[i] = "=" /\ \A j \in 1..(i - 1) : tok[j] # "="
         IN  <<SubSeq(tok, 1, e - 1), SubSeq(tok, e + 1, Len(tok))>>
    ELSE <<tok, <<>>>>

\* the name and the value-or-empty-string of a QueryParam
ParamKey(q) == <<q.name, IF q.value.has THEN q.value.s ELSE <<>>>>

\* a <= b in the ordinal order of strings
OrdLeq(a, b) ==
    \/ (Len(a) <= Len(b) /\ SubSeq(b, 1, Len(a)) = a)
    \/ \E k \in 1..Len(a) :
          /\ k <= Len(b)
          /\ SubSeq(a, 1, k - 1) = SubSeq(b, 1, k - 1)
          /\ Code(a[k]) < Code(b[k])

\* key a is not above key b: name first, value second
KeyLeq(a, b) == IF a[1] = b[1] THEN OrdLeq(a[2], b[2]) ELSE OrdLeq(a[1], b[1])

\* how often a key occurs in a sequence of keys
Occurs(k, keys) == Cardinality({i \in 1..Len(keys) : keys[i] = k})

\* C6: the query of a constructed HttpURL holds exactly one QueryParam per non-empty
\* token of the raw query text split on '&' and ';', each split at its first '=',
\* and the sequence is sorted by (name, value-or-empty-string) in ordinal order.
C6_QueryOrder ==
    url.live =>
        LET got  == [i \in 1..Len(url.query) |-> ParamKey(url.query[i])]
            want == [i \in 1..Len(RawTokens) |-> TokenKey(RawTokens[i])]
        IN  /\ Len(got) = Len(want)
            /\ \A i \in 1..Len(want) : Occurs(want[i], got) = Occurs(want[i], want)
            /\ \A i \in 1..(Len(got) - 1) : KeyLeq(got[i], got[i + 1])

\* three tokens were parsed and the upper-case name, given last, came first
C6_Witness ==
    /\ url.live
    /\ Len(url.query) = 3
    /\ Len(RawTokens) = 3
    /\ ParamKey(url.query[1]) = TokenKey(RawTokens[3])
    /\ ParamKey(url.query[1]) # TokenKey(RawTokens[1])
    /\ IsUpper(url.query[1].name[1])

\* C7: before the grammar is matched every '%' followed by two hex digits is
\* rewritten, in the whole raw input: to the character it encodes when that
\* character is unreserved (A-Z a-z 0-9 - . _ ~), otherwise to the triplet with
\* upper-case hex digits.
C7_PercentNormal ==
    uret.op = "new" => normUrl = Normalized(RawOf(input))

\* the input had a triplet of an unreserved character and a lower-case triplet of
\* another character
C7_Witness ==
    /\ uret.op = "new"
    /\ \E i \in 1..Len(RawOf(input)) :
          TripletAt(RawOf(input), i) /\ UnreservedByte(ByteAt(RawOf(input), i))
    /\ \E i \in 1..Len(RawOf(input)) :
          /\ TripletAt(RawOf(input), i)
          /\ ~UnreservedByte(ByteAt(RawOf(input), i))
          /\ (IsLower(RawOf(input)[i + 1]) \/ IsLower(RawOf(input)[i + 2]))
    /\ normUrl # RawOf(input)

\* the text of a QueryParam: name=value when the value is a non-empty string
ParamText(q) == IF q.value.has /\ q.value.s # <<>> THEN q.name \o <<"=">> \o q.value.s ELSE q.name

\* the canonical text of an HttpURL, from its fields
CanonicalText(u) ==
    u.scheme \o <<":", "/", "/">>
    \o (IF u.hasIp /\ ~isIPv4(u.ipAddress.value) THEN <<"[">> \o u.host \o <<"]">> ELSE u.host)
    \o <<":">> \o NumToString(u.port, 10)
    \o Flatten([i \in 1..Len(u.path) |-> <<"/">> \o u.path[i]])
    \o (IF u.isDir THEN <<"/">> ELSE <<>>)
    \o Flatten([i \in 1..Len(u.query) |->
                   (IF i = 1 THEN <<"?">> ELSE <<"&">>) \o ParamText(u.query[i])])
    \o (IF u.fragment.has THEN u.fragment.s ELSE <<>>)

\* C8: toString returns scheme, '://', the host (in brackets exactly when it is an
\* Address that is not IPv4-mapped), ':' and the decimal port (also a defaulted
\* one), '/' and the path segments joined by '/' when the path is non-empty, a
\* trailing '/' when isDir, '?' and the query joined by '&' when the query is
\* non-empty, and the fragment text when there is a fragment.
C8_Canonical ==
    uret.op = "toString" => (uret.ok /\ uret.str = CanonicalText(url))

\* an IPv6 host, a defaulted port, a path, a query and a fragment were rendered
C8_Witness ==
    /\ uret.op = "toString"
    /\ url.hasIp
    /\ ~isIPv4(url.ipAddress.value)
    /\ input.port = <<>>
    /\ Len(url.path) >= 1
    /\ Len(url.query) >= 1
    /\ url.fragment.has

\* C9: a constructed HttpURL has the scheme 'http' or 'https' in lower case,
\* whatever the case in the input; without a scheme in the input it is 'http';
\* without a port in the input the port is 80 for http and 443 for https.
C9_Defaults ==
    url.live =>
        /\ url.scheme \in {<<"h", "t", "t", "p">>, <<"h", "t", "t", "p", "s">>}
        /\ (input.scheme = <<>> => url.scheme = <<"h", "t", "t", "p">>)
        /\ (input.scheme # <<>> => url.scheme \o <<":", "/", "/">> = toLowerCase(input.scheme))
        /\ (input.port = <<>> => url.port = IF url.scheme = <<"h", "t", "t", "p">> THEN 80 ELSE 443)

\* a mixed-case https input without a port was constructed
C9_Witness ==
    /\ url.live
    /\ input.scheme # <<>>
    /\ input.scheme # toLowerCase(input.scheme)
    /\ url.scheme = <<"h", "t", "t", "p", "s">>
    /\ input.port = <<>>
    /\ url.port = 443

PortOutOfRange == PortPresent /\ (PortValue < 0 \/ PortValue > 65535)

IsDefaultText(text, v) ==
    IF Mapped(v) THEN IsDottedOf(text, LowBytes(v)) ELSE text = toIPv6String(v, TRUE)

\* the host is made from the Address that the literal parses to
HostOfLiteral(lit) ==
    /\ fromString(lit).ok
    /\ url.hasIp
    /\ url.ipAddress.value = fromString(lit).val
    /\ IsDefaultText(url.host, fromString(lit).val)

C12_IsDir ==
    url.live =>
        /\ url.isDir = (url.path = <<>> \/ (input.path # <<>> /\ input.path[Len(input.path)] = "/"))
        /\ (input.path = <<>> => (url.path = <<>> /\ url.isDir))

\* a path that kept a segment and ended in '/' is a directory
C12_Witness ==
    /\ url.live
    /\ Len(url.path) >= 1
    /\ input.path[Len(input.path)] = "/"
    /\ url.isDir

\* every '%' of s is followed by two hexadecimal digits
WellFormed(s) ==
    \A i \in 1..Len(s) :
        s[i] = "%" => (i + 2 <= Len(s) /\ IsHexDigit(s[i + 1]) /\ IsHexDigit(s[i + 2]))

\* C22: when every '%' of the constructor's argument starts a %XX triplet, the
\* percent-normalization of the normalized argument is the normalized argument.
C22_Idempotent ==
    (uret.op # "init" /\ WellFormed(RawOf(input))) => pctNormalize(normUrl) = normUrl

\* an argument was normalized whose triplets were decoded, put in upper case and
\* kept, among them %25 before two hex digits
C22_Witness ==
    /\ uret.op = "new"
    /\ WellFormed(RawOf(input))
    /\ normUrl # RawOf(input)
    /\ Contains(RawOf(input), <<"%", "2", "5", "4", "1", "%", "3", "a", "%", "7", "E">>)
    /\ Contains(normUrl, <<"%", "2", "5", "4", "1", "%", "3", "A", "~">>)

\* C29 as stated: a second HttpURL made from the string of a constructed HttpURL
\* is constructed and has the same string.
C29_FixedPoint ==
    uret.op = "reconstruct" => (uret.ok /\ uret.str = url.strMemo.s)

(***************************************************************************)
(* Claims about the memoized values, checked under SpecMemo                *)
(***************************************************************************)

\* the parsed fields of an HttpURL and of its query parameters
UrlFields(u) ==
    <<u.scheme, u.hasIp, u.ipAddress.value, u.host, u.port, u.path, u.isDir, u.fragment,
      [i \in 1..Len(u.query) |-> <<u.query[i].name, u.query[i].value>>]>>

\* the memo cells of an Address: the closures over isV4 and over ipv4Str
AddrCells(a) == <<a.isIPv4Memo # "unset", a.ipv4Memo.has>>

\* the HttpURL with the same fields and no closure left on it or on its parts
FreshUrl(u) ==
    [u EXCEPT !.strMemo = NoStr,
              !.ipAddress = IF u.hasIp THEN NewAddr(u.ipAddress.value) ELSE u.ipAddress,
              !.query = [i \in 1..Len(u.query) |-> [u.query[i] EXCEPT !.strMemo = NoStr]]]

\* a memo cell that is written stays as it is
CellsKept ==
    /\ addr.isIPv4Memo # "unset" => addr'.isIPv4Memo = addr.isIPv4Memo
    /\ addr.ipv4Memo.has => addr'.ipv4Memo = addr.ipv4Memo
    /\ url.strMemo.has => url'.strMemo = url.strMemo
    /\ url.live =>
          /\ url.ipAddress.isIPv4Memo # "unset" => url'.ipAddress.isIPv4Memo = url.ipAddress.isIPv4Memo
          /\ url.ipAddress.ipv4Memo.has => url'.ipAddress.ipv4Memo = url.ipAddress.ipv4Memo
          /\ \A i \in 1..Len(url.query) :
                url.query[i].strMemo.has => url'.query[i].strMemo = url.query[i].strMemo

\* no call changes the value of the Address or a parsed field of the HttpURL
FieldsKept ==
    /\ addr.live => (addr'.live /\ addr'.value = addr.value)
    /\ url.live => (url'.live /\ UrlFields(url') = UrlFields(url))

\* what the last call on the Address returned is what the call returns on a new
\* instance of the same value
AddrResultPure ==
    /\ aret'.op = "isIPv4" => aret'.flag = isIPv4(addr'.value)
    /\ aret'.op = "toIPv6String" =>
          (aret'.ok /\ aret'.str = instToIPv6String(NewAddr(addr'.value), aret'.dotDec).ret.val)
    /\ aret'.op = "toIPv4String" =>
          /\ aret'.ok = instToIPv4String(NewAddr(addr'.value)).ret.ok
          /\ aret'.str = instToIPv4String(NewAddr(addr'.value)).ret.val
          /\ aret'.err = instToIPv4String(NewAddr(addr'.value)).ret.err
    /\ aret'.op = "toString" =>
          (aret'.ok /\ aret'.str = instToString(NewAddr(addr'.value)).ret.val)

\* what the last toString of the HttpURL returned is what it returns on a new
\* instance of the same fields, and so is the string kept for each query parameter
UrlResultPure ==
    /\ uret'.op = "toString" => uret'.str = urlToString(FreshUrl(url')).ret
    /\ \A i \in 1..Len(url'.query) :
          url'.query[i].strMemo.has =>
              url'.query[i].strMemo.s = qpToString([url'.query[i] EXCEPT !.strMemo = NoStr])

\* C28: every call of isIPv4, toIPv4String, toIPv6String(flag) and toString on an
\* Address, and of toString on an HttpURL and its query parameters, returns the
\* result, or the failure, of the pure function of the instance's fields, hence of
\* the first such call; a memo cell, once written, is not written again with
\* another content; no call changes the value or a parsed field.
C28_Memoized == [][CellsKept /\ FieldsKept /\ AddrResultPure /\ UrlResultPure]_vars

\* both flags were used on an Address whose two closures are in place, and the
\* HttpURL has returned its string and keeps it
C28_Witness ==
    /\ addr.isIPv4Memo # "unset"
    /\ addr.ipv4Memo.has
    /\ aret.op = "toIPv6String"
    /\ flagsUsed = {TRUE, FALSE}
    /\ uret.op = "toString"
    /\ url.strMemo.has
    /\ \A i \in 1..Len(url.query) : url.query[i].strMemo.has
    /\ Len(url.query) >= 2

====
